---------------------------- MODULE Spec2Model ----------------------------
(***************************************************************************)
(* SafeVar<T> (src/header/SafeVar.hpp): a value kept encrypted with        *)
(* ChaCha20, mirrored into a VirtualAlloc'ed page and validated against    *)
(* the mirror on every read.  The model instantiates T with a 4-byte       *)
(* unsigned integer (SafeVar<DWORD> of src/Private/MemoryObusfactionTest)  *)
(* on a little-endian 64-bit build.                                        *)
(*                                                                         *)
(* Bytes are 0..255.  TLC's integers are 32-bit signed, so a uint32_t is   *)
(* the pair <<hi, lo>> of its 16-bit halves and all 32-bit arithmetic is   *)
(* done on the halves, modulo 2^32.  A value of T is its object            *)
(* representation: the sequence of its VALUE_SIZE bytes.                   *)
(***************************************************************************)
EXTENDS Integers, Sequences, FiniteSets, TLC

(***************************************************************************)
(* Bounds of the model.                                                    *)
(***************************************************************************)
\* Number of distinct page addresses VirtualAlloc can hand out.
MaxHandles == 2
\* Number of operations the client program performs on its containers
\* once it has constructed them.
MaxOps == 3
\* Plaintext values the client writes are 0..MaxValue.
MaxValue == 1
\* Operands of the compound assignment operators are 1..MaxOperand.
MaxOperand == 1
\* Number of threads that call the allocators directly.
MaxThreads == 2
\* Number of calls these threads make to the fake allocator, all together.
MaxCalls == 3
\* Number of calls these threads make to the pool, all together.
MaxPoolCalls == 5

(***************************************************************************)
(* Program constants.                                                      *)
(***************************************************************************)
\* sizeof(T) for T = DWORD
VALUE_SIZE == 4
\* FakeMemoryAllocator::fakeBaseAddress initial value, 0x10000000
FAKE_BASE == 268435456
\* padding added to every fake allocation, 0x10
FAKE_PAD == 16
\* allocation granularity of VirtualAlloc: handle h is the address h * 0x10000
PAGE_GRANULARITY == 2 ^ 16
\* nullptr
NULL == 0
\* 2^16: the modulus of one half of a uint32_t
H16 == 2 ^ 16

(***************************************************************************)
(* Bit operations on bytes and 16-bit halves.                              *)
(***************************************************************************)
Bit(a, i) == (a \div (2 ^ i)) % 2

XorBit(a, b) == (a + b) % 2

\* x ^ y on 4-bit operands, tabulated once
NibXor ==
    [a \in 0..15 |-> [b \in 0..15 |->
          XorBit(Bit(a, 0), Bit(b, 0))
        + 2 * XorBit(Bit(a, 1), Bit(b, 1))
        + 4 * XorBit(Bit(a, 2), Bit(b, 2))
        + 8 * XorBit(Bit(a, 3), Bit(b, 3))]] @@ <<>>

Nib(a, i) == (a \div (16 ^ i)) % 16

\* a ^ b on 16-bit operands, nibble by nibble with the table t
XorWith(t, a, b) ==
      t[Nib(a, 0)][Nib(b, 0)]
    + 16 * t[Nib(a, 1)][Nib(b, 1)]
    + 256 * t[Nib(a, 2)][Nib(b, 2)]
    + 4096 * t[Nib(a, 3)][Nib(b, 3)]

Xor16(a, b) == XorWith(NibXor, a, b)

Xor8(a, b) == Xor16(a, b)

(***************************************************************************)
(* uint32_t arithmetic on <<hi, lo>>.                                      *)
(***************************************************************************)
Xor32(a, b) == <<Xor16(a[1], b[1]), Xor16(a[2], b[2])>>

Add32(a, b) ==
    LET lo == a[2] + b[2]
    IN  <<(a[1] + b[1] + (lo \div H16)) % H16, lo % H16>>

\* a - b modulo 2^32
Sub32(a, b) ==
    LET lo == a[2] - b[2] + H16
    IN  <<(a[1] - b[1] + H16 - (IF lo < H16 THEN 1 ELSE 0)) % H16, lo % H16>>

\* a * m modulo 2^32 for a multiplier m < 2^15
MulSmall32(a, m) ==
    LET lo == a[2] * m
    IN  <<(a[1] * m + (lo \div H16)) % H16, lo % H16>>

\* a / d and a % d for a divisor 0 < d < 2^15
DivSmall32(a, d) ==
    LET r == a[1] % d
    IN  <<a[1] \div d, (r * H16 + a[2]) \div d>>

ModSmall32(a, d) == <<0, ((a[1] % d) * H16 + a[2]) % d>>

\* the word of a small natural
Word(n) == <<n \div H16, n % H16>>

\* LoadLE32: a uint32_t from 4 bytes at (1-based) position p of src
LoadLE32(src, p) ==
    <<src[p + 3] * 256 + src[p + 2], src[p + 1] * 256 + src[p]>>

\* the 4 bytes of a uint32_t as memcpy stores them on a little-endian machine
StoreLE32(w) == <<w[2] % 256, w[2] \div 256, w[1] % 256, w[1] \div 256>>

\* the sequence with the elements of f, a function on 1..n (the elements
\* are computed here, once, and not at every later use of the sequence)
Bytes(f) == f \o <<>>

Zeros(n) == Bytes([i \in 1..n |-> 0])

\* the VALUE_SIZE bytes of T for a small natural n (memcpy of a DWORD)
Val(n) == StoreLE32(Word(n))

(***************************************************************************)
(* ComputeChecksumFNV: FNV-1a over the bytes of data.                      *)
(***************************************************************************)
\* hash * 0x01000193 modulo 2^32; 0x01000193 = 2^24 + 403
FnvMul(h) ==
    LET lo == h[2] * 403
    IN  <<(h[1] * 403 + (lo \div H16) + (h[2] % 256) * 256) % H16, lo % H16>>

FnvStep(h, byte) == FnvMul(<<h[1], Xor16(h[2], byte)>>)

\* 0x811C9DC5
FNV_SEED == <<33052, 40389>>

ComputeChecksumFNV(data) ==
    LET F[i \in 0..Len(data)] ==
            IF i = 0 THEN FNV_SEED
            ELSE LET hash == F[i - 1] IN FnvStep(hash, data[i])
    IN  F[Len(data)]

(***************************************************************************)
(* ChaCha20 (class ChaCha20).  The state is a sequence of 16 words; the    *)
(* source's index i is i + 1 here.                                         *)
(***************************************************************************)
\* ChaCha20::constants
constants == << <<24944, 30821>>, <<13088, 25710>>, <<31074, 11574>>, <<27424, 25972>> >>

\* (x << n) | (x >> (32 - n)) for 0 < n <= 16
RotateLeft(x, n) ==
    IF n = 16 THEN <<x[2], x[1]>>
    ELSE <<((x[1] * (2 ^ n)) % H16) + (x[2] \div (2 ^ (16 - n))),
           ((x[2] * (2 ^ n)) % H16) + (x[1] \div (2 ^ (16 - n)))>>

\* state[z] ^= state[x]; state[z] = RotateLeft(state[z], n);
XorRotate(state, x, z, n) ==
    [state EXCEPT ![z] = RotateLeft(Xor32(state[z], state[x]), n)]

\* state[x] += state[y]; state[z] ^= state[x];
\* state[z] = RotateLeft(state[z], n);
AddXorRotate(state, x, y, z, n) ==
    XorRotate([state EXCEPT ![x] = Add32(state[x], state[y])], x, z, n)

QuarterRound(state, a, b, c, d) ==
    AddXorRotate(
        AddXorRotate(
            AddXorRotate(
                AddXorRotate(state, a, b, d, 16),
                c, d, b, 12),
            a, b, d, 8),
        c, d, b, 7)

\* the values of uint32_t state[16]
WordStates == [1..16 -> (0..(H16 - 1)) \X (0..(H16 - 1))]

\* the index arguments of the eight QuarterRound calls of the loop of
\* Block, four column and four diagonal rounds, in order
QuarterRounds ==
    << <<1, 5, 9, 13>>, <<2, 6, 10, 14>>, <<3, 7, 11, 15>>, <<4, 8, 12, 16>>,
       <<1, 6, 11, 16>>, <<2, 7, 12, 13>>, <<3, 8, 9, 14>>, <<4, 5, 10, 15>> >>

\* call number i of the eight.  (A function, so that a call starts from
\* the computed result of the one before it.)
QuarterRoundCall[s \in WordStates, i \in 1..8] ==
    QuarterRound(s, QuarterRounds[i][1], QuarterRounds[i][2],
                 QuarterRounds[i][3], QuarterRounds[i][4])

\* one iteration of the loop of Block.  (A function, for the same reason.)
DoubleRound[s \in WordStates] ==
    LET after[i \in 0..8] ==
            IF i = 0 THEN s ELSE QuarterRoundCall[after[i - 1], i]
    IN  after[8]

\* for (i = 0; i < 20; i += 2): ten iterations
TwentyRounds(s) ==
    LET after[i \in 0..10] ==
            IF i = 0 THEN s ELSE DoubleRound[after[i - 1]]
    IN  after[10]

\* Block: the 64 keystream bytes of a state
Block(state) ==
    LET workingState == TwentyRounds(state)
        out == Bytes([i \in 1..16 |->
                        StoreLE32(Add32(workingState[i], state[i]))])
    IN  Bytes([j \in 1..64 |-> out[((j - 1) \div 4) + 1][((j - 1) % 4) + 1]])

\* the state Encrypt builds for block number counter: constants, 8 key
\* words, the counter, 0, and the first 8 bytes of the nonce
CipherState(k, n, counter) ==
    Bytes([i \in 1..16 |->
        IF i <= 4 THEN constants[i]
        ELSE IF i <= 12 THEN LoadLE32(k, (i - 5) * 4 + 1)
        ELSE IF i = 13 THEN Word(counter)
        ELSE IF i = 14 THEN <<0, 0>>
        ELSE IF i = 15 THEN LoadLE32(n, 1)
        ELSE LoadLE32(n, 5)])

Keystream(k, n, counter) == Block(CipherState(k, n, counter))

(***************************************************************************)
(* Inputs of the model.                                                    *)
(***************************************************************************)
\* the SafeVar<DWORD> instances of the client program
Containers == {"A", "B"}

\* page addresses VirtualAlloc can return, as handles 1..MaxHandles
Handles == 1..MaxHandles

\* plaintext values the client writes
Values == {Val(n) : n \in 0..MaxValue}

\* T{} for T = DWORD
DefaultValue == Val(0)

\* right-hand sides of += -= *= /= %=
Operands == 1..MaxOperand

\* two streams std::random_device / std::mt19937 can deliver; GenerateKey
\* and GenerateNonce consume a prefix of one
RandomStreams ==
    << Bytes([i \in 1..32 |-> (159 + 61 * i) % 256]),
       Bytes([i \in 1..32 |-> (204 + 113 * i) % 256]) >>

\* what the two generators of one Set deliver: <<the stream of GenerateKey,
\* the stream of GenerateNonce>>
Draws ==
    { <<RandomStreams[1], RandomStreams[2]>>,
      <<RandomStreams[2], RandomStreams[1]>> }

\* the tokens AllocateFakeMemory can return within the bound
FakeStep == VALUE_SIZE + FAKE_PAD

FakeTokens ==
    {FAKE_BASE + i * FakeStep : i \in 0..(Cardinality(Containers) + MaxOps)}

(***************************************************************************)
(* ChaCha20::Encrypt.  The keystream of block 0 is tabulated for the keys  *)
(* and nonces the containers of the model can hold; any other input is     *)
(* computed directly.                                                      *)
(***************************************************************************)
\* GenerateNonce: 12 random bytes
GenerateNonce(rnd) == Bytes([i \in 1..12 |-> rnd[i]])

\* GenerateKey: keyOut.fill(0), then min(VALUE_SIZE, 32) random bytes
GenerateKey(rnd) ==
    Bytes([i \in 1..VALUE_SIZE |-> IF i <= 32 THEN rnd[i] ELSE 0])

\* InitializeCryptoState: fullKey.fill(0), then the stored key copied to
\* its front
FullKey(k) == Bytes([i \in 1..32 |-> IF i <= Len(k) THEN k[i] ELSE 0])

\* the 8 bytes of a pointer-sized integer below 2^31
StoreLE64(n) == StoreLE32(Word(n)) \o <<0, 0, 0, 0>>

\* the address of a handle, reinterpret_cast<uintptr_t>(realMemory)
RealAddress(h) == h * PAGE_GRANULARITY

\* the 4 bytes of a pointer-sized integer below 2^31 in a 32-bit build
StorePointer32(n) == StoreLE32(Word(n))

\* the object layouts of the two Windows targets
Layouts == {"x64", "x86"}

\* What ChaCha20::Encrypt loads when it is handed key.data() itself
\* (Serialize, Deserialize): 32 bytes starting at the stored key.  The key
\* array holds VALUE_SIZE bytes; for VALUE_SIZE < 32 the load runs on into
\* the members declared after it.  In the 64-bit layout these are realMemory
\* (8 bytes), fakeMemoryAddress (8 bytes) and nonce (12 bytes); in the 32-bit
\* layout realMemory (4), fakeMemoryAddress (4), nonce (12), lastChecksum
\* (4), isValid (1) and three bytes of padding, zero in a block of the pool.
KeyDataRead(k, page, token, n, checksum, valid, layout) ==
    IF layout = "x64"
    THEN SubSeq(k \o StoreLE64(RealAddress(page)) \o StoreLE64(token) \o n,
                1, 32)
    ELSE SubSeq(k \o StorePointer32(RealAddress(page)) \o StorePointer32(token)
                  \o n \o StoreLE32(checksum)
                  \o <<IF valid THEN 1 ELSE 0, 0, 0, 0>>,
                1, 32)

StoredKeys == {GenerateKey(RandomStreams[i]) : i \in 1..2} \cup {Zeros(VALUE_SIZE)}

StoredNonces == {GenerateNonce(RandomStreams[i]) : i \in 1..2} \cup {Zeros(12)}

\* the keystream of block 0 under the keys Obfuscate and Deobfuscate use
KeystreamTable ==
    [p \in {<<FullKey(k), n>> : k \in StoredKeys, n \in StoredNonces} |->
        Keystream(p[1], p[2], 0)] @@ <<>>

\* the checksums Set can store: of the ciphertext of a value under a drawn
\* key and nonce
StoredChecksums ==
    {ComputeChecksumFNV(
        Bytes([i \in 1..VALUE_SIZE |->
            Xor8(v[i], KeystreamTable[<<FullKey(GenerateKey(d[1])),
                                        GenerateNonce(d[2])>>][i])])) :
        v \in Values, d \in Draws}

\* the keystream of block 0 under the keys Serialize and Deserialize use
KeyDataTable ==
    [p \in {<<KeyDataRead(k, h, f, n, <<0, 0>>, FALSE, "x64"), n>> :
                k \in StoredKeys, h \in 0..MaxHandles,
                f \in FakeTokens \cup {0}, n \in StoredNonces}
           \cup {<<KeyDataRead(GenerateKey(d[1]), h, f, GenerateNonce(d[2]),
                               s, b, "x86"), GenerateNonce(d[2])>> :
                d \in Draws, h \in 0..MaxHandles, f \in FakeTokens,
                s \in StoredChecksums, b \in BOOLEAN} |->
        Keystream(p[1], p[2], 0)] @@ <<>>

\* keystream block number counter, read from tb when tb holds it
BlockFrom(tb, k, n, counter) ==
    IF counter = 0 /\ <<k, n>> \in DOMAIN tb
    THEN tb[<<k, n>>]
    ELSE Keystream(k, n, counter)

KeystreamBlock(k, n, counter) ==
    BlockFrom(IF Len(k) = 32 /\ SubSeq(k, VALUE_SIZE + 1, 32) = Zeros(32 - VALUE_SIZE)
              THEN KeystreamTable ELSE KeyDataTable, k, n, counter)

\* the loop of Encrypt, given the keystream blocks it generates: byte i of
\* the output is byte i of the input XOR byte i % 64 of block i / 64
EncryptWith(blocks, input, length) ==
    Bytes([i \in 1..length |->
        Xor8(input[i], blocks[((i - 1) \div 64) + 1][((i - 1) % 64) + 1])])

\* Encrypt with + in the place of ^
EncryptAdding(input, length, k, n) ==
    Bytes([i \in 1..length |->
        (input[i] + KeystreamBlock(k, n, (i - 1) \div 64)[((i - 1) % 64) + 1])
            % 256])

\* Encrypt: the counter restarts at 0 on every call, and block number c of
\* the keystream is generated with counter c
Encrypt(input, length, k, n) ==
    EncryptWith(Bytes([c \in 1..((length + 63) \div 64) |->
                        KeystreamBlock(k, n, c - 1)]),
                input, length)

(***************************************************************************)
(* The process's memory and the members of one SafeVar object.             *)
(*                                                                         *)
(* A machine m is [allocated, mem, fakeBaseAddress, crashed, freed,        *)
(* acquired, wrote]: the pages VirtualAlloc has committed and their first  *)
(* VALUE_SIZE bytes, the fake allocator's counter, whether the process     *)
(* has died, and a log of the operation in progress: the pages it          *)
(* released and acquired and the value a Set in it stored.  A page that    *)
(* VirtualFree has released is unmapped: reading or writing it is an       *)
(* access violation that ends the process.                                 *)
(*                                                                         *)
(* An object o is the record of the members of a SafeVar.  An operation    *)
(* maps (m, o) to an outcome [m, o, exc, val]: the machine and the object  *)
(* after it, the what() of the exception that left it ("none" when it      *)
(* returned, "crash" when the process died in it) and what it returned.    *)
(***************************************************************************)
NONE == "none"
CRASH == "crash"
INVALID_STATE == "Invalid memory state"
TAMPER_DETECTED == "Memory validation failed"
VERIFICATION_FAILURE == "Decryption verification failed"
ALLOCATION_FAILURE == "Memory allocation failed"
FREE_FAILURE == "Memory free failed"

Outcome(m, o, exc, val) == [m |-> m, o |-> o, exc |-> exc, val |-> val]

Crash(m, o) == Outcome([m EXCEPT !.crashed = TRUE], o, CRASH, <<>>)

\* the members of a SafeVar before its constructor body runs: the default
\* member initializers; buffer, key and nonce are written by Clear before
\* anything reads them
NewObject ==
    [buffer |-> Zeros(VALUE_SIZE), key |-> Zeros(VALUE_SIZE),
     realMemory |-> NULL, fakeMemoryAddress |-> 0, nonce |-> Zeros(12),
     lastChecksum |-> <<0, 0>>, isValid |-> FALSE]

\* RealMemoryAllocator::AllocateRealMemory: VirtualAlloc returns the page h
\* (zero-filled), or NULL when the system denies the request
AllocateRealMemory(m, o, h) ==
    IF h = NULL
    THEN Outcome(m, o, ALLOCATION_FAILURE, NULL)
    ELSE Outcome([m EXCEPT !.allocated = @ \cup {h},
                           !.mem[h] = Zeros(VALUE_SIZE),
                           !.acquired = @ \cup {h}],
                 o, NONE, h)

\* RealMemoryAllocator::FreeRealMemory: VirtualFree fails on an address
\* that is not the base of a live allocation
FreeRealMemory(m, o, ptr) ==
    IF ptr \notin m.allocated
    THEN Outcome(m, o, FREE_FAILURE, <<>>)
    ELSE Outcome([m EXCEPT !.allocated = @ \ {ptr},
                           !.mem[ptr] = Zeros(VALUE_SIZE),
                           !.freed = @ \cup {ptr}],
                 o, NONE, <<>>)

\* Allocate that returns the last free block and leaves it in the list
AllocateUnpopped(m, blocks, h) ==
    IF blocks # <<>>
    THEN [m |-> m, blocks |-> blocks, exc |-> NONE, val |-> blocks[Len(blocks)]]
    ELSE [m |-> AllocateRealMemory(m, NewObject, h).m, blocks |-> blocks,
          exc |-> AllocateRealMemory(m, NewObject, h).exc,
          val |-> AllocateRealMemory(m, NewObject, h).val]

\* MemoryPool::Allocate, lines 226-231, on the free list blocks: h is
\* what VirtualAlloc returns if it is called
Allocate(m, blocks, h) ==
    IF blocks # <<>>
    THEN [m |-> m, blocks |-> SubSeq(blocks, 1, Len(blocks) - 1),
          exc |-> NONE, val |-> blocks[Len(blocks)]]
    ELSE [m |-> AllocateRealMemory(m, NewObject, h).m, blocks |-> blocks,
          exc |-> AllocateRealMemory(m, NewObject, h).exc,
          val |-> AllocateRealMemory(m, NewObject, h).val]

\* MemoryPool::Free, line 237
Free(blocks, ptr) == Append(blocks, ptr)

\* AllocateFakeMemory that advances the counter by size alone
AllocateFakeMemoryUnpadded(m, size) ==
    [m |-> [m EXCEPT !.fakeBaseAddress = @ + size],
     val |-> m.fakeBaseAddress]

\* FakeMemoryAllocator::AllocateFakeMemory
AllocateFakeMemory(m, size) ==
    [m |-> [m EXCEPT !.fakeBaseAddress = @ + size + FAKE_PAD],
     val |-> m.fakeBaseAddress]

\* SafeVar::Obfuscate and SafeVar::Deobfuscate
Obfuscate(o, value) == Encrypt(value, VALUE_SIZE, FullKey(o.key), o.nonce)

\* Deobfuscate under the key Clear leaves, not the stored one
DeobfuscateUnkeyed(o, inBuffer) ==
    Encrypt(inBuffer, VALUE_SIZE, FullKey(Zeros(VALUE_SIZE)), o.nonce)

Deobfuscate(o, inBuffer) ==
    Encrypt(inBuffer, VALUE_SIZE, FullKey(o.key), o.nonce)

\* ValidateMemory without the comparison of the page with the buffer
ValidateMemoryUncompared(m, o) == o.realMemory # NULL /\ o.isValid

\* SafeVar::ValidateMemory, where the memcpy from realMemory can be done
ValidateMemory(m, o) ==
    IF o.realMemory = NULL \/ ~o.isValid THEN FALSE
    ELSE m.mem[o.realMemory] = o.buffer

\* ValidateMemory reads a page that has been released
ValidateMemoryFaults(m, o) ==
    o.realMemory # NULL /\ o.isValid /\ o.realMemory \notin m.allocated

\* SafeVar::Clear
Clear(m, o) ==
    LET wiped == [o EXCEPT !.buffer = Zeros(VALUE_SIZE),
                            !.key = Zeros(VALUE_SIZE),
                            !.nonce = Zeros(12),
                            !.fakeMemoryAddress = 0]
    IN  IF o.realMemory = NULL THEN Outcome(m, wiped, NONE, <<>>)
        ELSE IF o.realMemory \notin m.allocated
        THEN Crash(m, o)   \* memset on a released page
        ELSE LET zeroed == [m EXCEPT !.mem[o.realMemory] = Zeros(VALUE_SIZE)]
                 fr == FreeRealMemory(zeroed, o, o.realMemory)
             IN  IF fr.exc # NONE THEN fr
                 ELSE Outcome(fr.m, [wiped EXCEPT !.realMemory = NULL],
                              NONE, <<>>)

\* SafeVar::~SafeVar: Clear; a destructor is noexcept, so an exception
\* leaving it is std::terminate
Destructor(m, o) ==
    LET cl == Clear(m, o)
    IN  IF cl.exc # NONE THEN Crash(cl.m, o) ELSE cl

\* SafeVar::Get from line 371 on: decrypted is what Deobfuscate returned
GetVerify(m, o, decrypted) ==
    IF Obfuscate(o, decrypted) # o.buffer
    THEN Outcome(m, o, VERIFICATION_FAILURE, <<>>)
    ELSE Outcome(m, o, NONE, decrypted)

\* Get with its first two checks in the other order
GetValidateFirst(m, o, encrypted) ==
    IF ValidateMemoryFaults(m, o) THEN Crash(m, o)
    ELSE IF ~ValidateMemory(m, o) THEN Outcome(m, o, TAMPER_DETECTED, <<>>)
    ELSE IF o.realMemory = NULL THEN Outcome(m, o, INVALID_STATE, <<>>)
    ELSE IF encrypted THEN Outcome(m, o, NONE, o.buffer)
    ELSE GetVerify(m, o, Deobfuscate(o, o.buffer))

\* Get that marks the object invalid when the validation fails
GetInvalidating(m, o, encrypted) ==
    IF o.realMemory = NULL THEN Outcome(m, o, INVALID_STATE, <<>>)
    ELSE IF ValidateMemoryFaults(m, o) THEN Crash(m, o)
    ELSE IF ~ValidateMemory(m, o)
    THEN Outcome(m, [o EXCEPT !.isValid = FALSE], TAMPER_DETECTED, <<>>)
    ELSE IF encrypted THEN Outcome(m, o, NONE, o.buffer)
    ELSE GetVerify(m, o, Deobfuscate(o, o.buffer))

\* SafeVar::Get
Get(m, o, encrypted) ==
    IF o.realMemory = NULL THEN Outcome(m, o, INVALID_STATE, <<>>)
    ELSE IF ValidateMemoryFaults(m, o) THEN Crash(m, o)
    ELSE IF ~ValidateMemory(m, o) THEN Outcome(m, o, TAMPER_DETECTED, <<>>)
    ELSE IF encrypted THEN Outcome(m, o, NONE, o.buffer)
    ELSE GetVerify(m, o, Deobfuscate(o, o.buffer))

\* Set from line 393 on without the memcpy of line 395
SetAllocateUnmirrored(m, o, value, h) ==
    LET al == AllocateRealMemory(m, o, h)
        fake == AllocateFakeMemory(al.m, VALUE_SIZE)
    IN  IF al.exc # NONE THEN Outcome(al.m, o, al.exc, <<>>)
        ELSE Outcome([fake.m EXCEPT !.wrote = value],
                     [o EXCEPT !.realMemory = h,
                               !.lastChecksum = ComputeChecksumFNV(o.buffer),
                               !.fakeMemoryAddress = fake.val,
                               !.isValid = TRUE],
                     NONE, value)

\* SafeVar::Set from line 393 on: o holds the new key, nonce and
\* ciphertext, h is what VirtualAlloc returns
SetAllocate(m, o, value, h) ==
    LET al == AllocateRealMemory(m, o, h)
        mirrored == [al.m EXCEPT !.mem[h] = o.buffer]
        fake == AllocateFakeMemory(mirrored, VALUE_SIZE)
    IN  IF al.exc # NONE THEN Outcome(al.m, o, al.exc, <<>>)
        ELSE Outcome([fake.m EXCEPT !.wrote = value],
                     [o EXCEPT !.realMemory = h,
                               !.lastChecksum = ComputeChecksumFNV(o.buffer),
                               !.fakeMemoryAddress = fake.val,
                               !.isValid = TRUE],
                     NONE, value)

\* Set with Obfuscate run before GenerateKey: the ciphertext is made under
\* the key Clear left
SetObfuscateUnkeyed(m, keyed, value, h) ==
    SetAllocate(m,
                [keyed EXCEPT !.buffer =
                    Obfuscate([keyed EXCEPT !.key = Zeros(VALUE_SIZE)], value)],
                value, h)

\* SafeVar::Set, line 392: keyed holds the new key and nonce
SetObfuscate(m, keyed, value, h) ==
    SetAllocate(m, [keyed EXCEPT !.buffer = Obfuscate(keyed, value)], value, h)

\* SafeVar::Set from line 390 on: cl is the outcome of Clear; rk and rn are
\* the random streams GenerateKey and GenerateNonce draw from
SetGenerate(cl, value, rk, rn, h) ==
    IF cl.exc # NONE THEN cl
    ELSE SetObfuscate(cl.m, [cl.o EXCEPT !.key = GenerateKey(rk),
                                         !.nonce = GenerateNonce(rn)],
                      value, h)

\* SafeVar::Set
Set(m, o, value, rk, rn, h) == SetGenerate(Clear(m, o), value, rk, rn, h)

\* the outcome of a Set whose result the caller drops
Dropped(st) == Outcome(st.m, st.o, st.exc, <<>>)

\* SafeVar::ReKey, line 405: current is the outcome of Get
ReKeySet(current, o, rk, rn, h) ==
    IF current.exc # NONE THEN current
    ELSE Dropped(Set(current.m, o, current.val, rk, rn, h))

\* ReKey that reads the value and rotates nothing
ReKeyUnrotated(m, o, rk, rn, h) == Dropped(Get(m, o, FALSE))

\* SafeVar::ReKey
ReKey(m, o, rk, rn, h) == ReKeySet(Get(m, o, FALSE), o, rk, rn, h)

\* the plaintext-domain step of the compound assignments and of ++ and --
Operators == {"+=", "-=", "*=", "/=", "%=", "++", "--"}

Apply(op, currentValue, value) ==
    LET w == LoadLE32(currentValue, 1)
    IN  StoreLE32(CASE op = "+=" -> Add32(w, Word(value))
                    [] op = "-=" -> Sub32(w, Word(value))
                    [] op = "*=" -> MulSmall32(w, value)
                    [] op = "/=" -> DivSmall32(w, value)
                    [] op = "%=" -> ModSmall32(w, value)
                    [] op = "++" -> Add32(w, Word(1))
                    [] op = "--" -> Sub32(w, Word(1)))

\* the compound assignments, clearing the container when Get has thrown
CompoundSetClearing(currentValue, o, op, value, rk, rn, h) ==
    IF currentValue.exc # NONE
    THEN Outcome(Clear(currentValue.m, o).m, Clear(currentValue.m, o).o,
                 currentValue.exc, <<>>)
    ELSE Dropped(Set(currentValue.m, o, Apply(op, currentValue.val, value),
                     rk, rn, h))

\* the compound assignments from their second line on: currentValue is the
\* outcome of Get
CompoundSet(currentValue, o, op, value, rk, rn, h) ==
    IF currentValue.exc # NONE THEN currentValue
    ELSE Dropped(Set(currentValue.m, o, Apply(op, currentValue.val, value),
                     rk, rn, h))

\* operator+=, -=, *=, /=, %= and the prefix operator++ and operator--
CompoundAssign(m, o, op, value, rk, rn, h) ==
    CompoundSet(Get(m, o, FALSE), o, op, value, rk, rn, h)

\* operator++(int) and operator--(int) after the prefix operator has run on
\* *this with outcome pre: temp is destroyed (~SafeVar is Clear), by the
\* unwinding if the prefix operator threw, else at the end of the caller's
\* full expression, which discards the result.  Without copy elision
\* (elide = FALSE) the returned object is a second copy of temp and both are
\* destroyed.
PostfixReturn(pre, temp, elide) ==
    LET d1 == Destructor(pre.m, temp)
        d2 == Destructor(d1.m, temp)
    IN  IF pre.exc = CRASH THEN pre
        ELSE IF d1.exc # NONE THEN Outcome(d1.m, pre.o, d1.exc, <<>>)
        ELSE IF pre.exc # NONE \/ elide THEN Outcome(d1.m, pre.o, pre.exc, <<>>)
        ELSE IF d2.exc # NONE THEN Outcome(d2.m, pre.o, d2.exc, <<>>)
        ELSE Outcome(d2.m, pre.o, NONE, <<>>)

\* operator++(int) and operator--(int): "SafeVar temp = *this" is the
\* implicit member-wise copy, so temp.realMemory is this->realMemory
PostfixOperator(m, o, op, rk, rn, h, elide) ==
    PostfixReturn(CompoundAssign(m, o, op, 1, rk, rn, h), o, elide)

\* SafeVar::Serialize
SERIALIZED_SIZE == VALUE_SIZE + 12 + VALUE_SIZE

\* the 32 bytes at key.data() of o
KeyData(o, layout) ==
    KeyDataRead(o.key, o.realMemory, o.fakeMemoryAddress, o.nonce,
                o.lastChecksum, o.isValid, layout)

Serialize(m, o, layout) ==
    Outcome(m, o, NONE,
            o.nonce \o o.key
            \o Encrypt(o.buffer, VALUE_SIZE, KeyData(o, layout), o.nonce))

\* SafeVar::Deserialize, line 562: read holds the nonce and key of data
DeserializeDecrypt(m, read, encrypted, layout) ==
    Outcome(m,
            [read EXCEPT !.buffer =
                Encrypt(encrypted, VALUE_SIZE, KeyData(read, layout),
                        read.nonce)],
            NONE, TRUE)

\* Deserialize that goes on to copy the new ciphertext to the real
\* allocation
DeserializeMirrored(m, o, data, len, layout) ==
    IF len # SERIALIZED_SIZE THEN Outcome(m, o, NONE, FALSE)
    ELSE LET r == DeserializeDecrypt(m,
                    [o EXCEPT !.nonce = SubSeq(data, 1, 12),
                              !.key = SubSeq(data, 13, 12 + VALUE_SIZE)],
                    SubSeq(data, 13 + VALUE_SIZE, SERIALIZED_SIZE),
                    layout)
         IN  IF o.realMemory \in m.allocated
             THEN [r EXCEPT !.m.mem[o.realMemory] = r.o.buffer]
             ELSE r

\* Deserialize that copies the nonce before it looks at the length
DeserializeNonceFirst(m, o, data, len, layout) ==
    IF len # SERIALIZED_SIZE
    THEN Outcome(m, [o EXCEPT !.nonce = SubSeq(data, 1, 12)], NONE, FALSE)
    ELSE DeserializeDecrypt(m,
                            [o EXCEPT !.nonce = SubSeq(data, 1, 12),
                                      !.key = SubSeq(data, 13, 12 + VALUE_SIZE)],
                            SubSeq(data, 13 + VALUE_SIZE, SERIALIZED_SIZE),
                            layout)

\* SafeVar::Deserialize
Deserialize(m, o, data, len, layout) ==
    IF len # SERIALIZED_SIZE THEN Outcome(m, o, NONE, FALSE)
    ELSE DeserializeDecrypt(m,
                            [o EXCEPT !.nonce = SubSeq(data, 1, 12),
                                      !.key = SubSeq(data, 13, 12 + VALUE_SIZE)],
                            SubSeq(data, 13 + VALUE_SIZE, SERIALIZED_SIZE),
                            layout)

(***************************************************************************)
(* The state of the program.                                               *)
(***************************************************************************)
VARIABLES
    alive,              \* alive[c]: the object c is constructed
    buffer, key, realMemory, fakeMemoryAddress, nonce, lastChecksum, isValid,
                        \* the members of each SafeVar
    allocated,          \* the pages VirtualAlloc has committed
    mem,                \* mem[h]: the first VALUE_SIZE bytes of page h
    fakeBaseAddress,    \* FakeMemoryAllocator::fakeBaseAddress
    crashed,            \* the process has died
    ops,                \* the number of operations performed so far
    ret,                \* the last operation and what it returned or threw
    lastSet,            \* history: lastSet[c] is the v of the last
                        \* successful Set(v) or constructor call on c, if
                        \* c has not been operated on otherwise since and
                        \* nothing else has written or released its page
    written,            \* history: the value the last successful Set in
                        \* any operation of c stored, until Clear,
                        \* Deserialize or a failed Set
    fresh,              \* history: c is constructed and untouched since
    loaded,             \* history: the value the container held whose
                        \* Serialize output a fresh c has deserialized
    tampered,           \* history: something outside the program has
                        \* written to a committed page
    reset               \* history: ResetAllocator has run

\* The state of a caller of ChaCha20::Encrypt (TestSymmetry)
VARIABLES
    cipherKey,          \* uint8_t key[32]
    cipherNonce,        \* uint8_t nonce[12]
    cipherInput,        \* uint8_t input[]: the buffer b
    cipherOutput,       \* what the last Encrypt call wrote
    passes              \* the number of Encrypt calls made

cipher == <<cipherKey, cipherNonce, cipherInput, cipherOutput, passes>>

\* The threads that call the static FakeMemoryAllocator directly
VARIABLES
    mtx,                \* FakeMemoryAllocator::mtx: the thread that holds
                        \* it, or NoThread
    pc,                 \* pc[t]: where thread t is in its call
    request,            \* request[t]: the size argument of the call of t
    allocatedAddress,   \* allocatedAddress[t]: the local of the call of t
    inCall,             \* inCall[t]: the container and the value argument
                        \* of the Set thread t is in, or NoCall
    issued,             \* history: the tokens read from the counter, with
                        \* their sizes, in the order of the reads
    returned            \* history: the calls that have returned, with
                        \* what they returned, in the order of the returns

callers == <<mtx, pc, request, allocatedAddress, inCall, issued, returned>>

\* SafeVar<T>::memoryPool and the threads that use it
VARIABLES
    freeBlocks,         \* MemoryPool::freeBlocks
    poolMtx,            \* MemoryPool::mtx: the thread that holds it, or
                        \* NoThread
    held                \* held[t]: the blocks thread t has been handed and
                        \* has not freed, oldest first

pool == <<freeBlocks, poolMtx, held>>

\* The instantiation SafeVar<T> the program uses
VARIABLES
    valueSize,          \* VALUE_SIZE = sizeof(T)
    cryptoState         \* the CryptoState the last InitializeCryptoState of
                        \* an instantiation other than SafeVar<DWORD> built

instantiation == <<valueSize, cryptoState>>

members == <<buffer, key, realMemory, fakeMemoryAddress, nonce, lastChecksum, isValid>>

machine == <<allocated, mem, fakeBaseAddress, crashed>>

history == <<lastSet, written, fresh, loaded, tampered, reset>>

vars == <<alive, members, machine, ops, ret, history, cipher, callers, pool,
          instantiation>>

\* the threads of the model
Threads == 1..MaxThreads

NoThread == 0

NoCall == [c |-> "", value |-> <<>>]

\* no thread other than the one of the client program, which creates no
\* container with new: the pool is as constructed
NoCallers ==
    /\ freeBlocks = <<>>
    /\ poolMtx = NoThread
    /\ held = [t \in Threads |-> <<>>]
    /\ mtx = NoThread
    /\ pc = [t \in Threads |-> "idle"]
    /\ request = [t \in Threads |-> 0]
    /\ allocatedAddress = [t \in Threads |-> 0]
    /\ inCall = [t \in Threads |-> NoCall]
    /\ issued = <<>>
    /\ returned = <<>>

\* no caller of ChaCha20::Encrypt other than the containers
NoCipherCaller ==
    /\ cipherKey = <<>> /\ cipherNonce = <<>>
    /\ cipherInput = <<>> /\ cipherOutput = <<>> /\ passes = 0

\* the program instantiates SafeVar<DWORD> alone
NoCryptoState == [fullKey |-> <<>>, temp |-> <<>>, copied |-> {}]

DwordOnly == valueSize = VALUE_SIZE /\ cryptoState = NoCryptoState

NoValue == <<>>

\* the object c
Obj(c) ==
    [buffer |-> buffer[c], key |-> key[c], realMemory |-> realMemory[c],
     fakeMemoryAddress |-> fakeMemoryAddress[c], nonce |-> nonce[c],
     lastChecksum |-> lastChecksum[c], isValid |-> isValid[c]]

\* the machine at the start of an operation
Machine ==
    [allocated |-> allocated, mem |-> mem, fakeBaseAddress |-> fakeBaseAddress,
     crashed |-> crashed, freed |-> {}, acquired |-> {}, wrote |-> NoValue]

\* c is Valid and holds v: its last Set stored v and its page mirrors its
\* ciphertext
Holds(c, v) ==
    /\ alive[c] /\ written[c] = v /\ isValid[c]
    /\ realMemory[c] \in allocated
    /\ mem[realMemory[c]] = buffer[c]

\* the machine when the program starts
NewMachine ==
    [allocated |-> {}, mem |-> [h \in Handles |-> Zeros(VALUE_SIZE)],
     fakeBaseAddress |-> FAKE_BASE, crashed |-> FALSE,
     freed |-> {}, acquired |-> {}, wrote |-> NoValue]

\* The client program has constructed its containers, "SafeVar<DWORD> A(v),
\* B;": two runs of the constructor, each a Set on the default member
\* initializers, with different draws, on the pages 1 and 2.
\* the function on Containers with x at "A" and y at "B"
Both(x, y) == [c \in Containers |-> IF c = "A" THEN x ELSE y]

\* the state of the program when the constructors of A and B have ended
\* with outcomes a and b
Constructed(a, b, vA, vB) ==
    /\ alive = Both(TRUE, TRUE)
    /\ buffer = Both(a.o.buffer, b.o.buffer)
    /\ key = Both(a.o.key, b.o.key)
    /\ realMemory = Both(a.o.realMemory, b.o.realMemory)
    /\ fakeMemoryAddress = Both(a.o.fakeMemoryAddress, b.o.fakeMemoryAddress)
    /\ nonce = Both(a.o.nonce, b.o.nonce)
    /\ lastChecksum = Both(a.o.lastChecksum, b.o.lastChecksum)
    /\ isValid = Both(a.o.isValid, b.o.isValid)
    /\ allocated = b.m.allocated
    /\ mem = b.m.mem
    /\ fakeBaseAddress = b.m.fakeBaseAddress
    /\ crashed = FALSE
    /\ ops = 0
    /\ ret = [op |-> "init", c |-> "", arg |-> <<>>, exc |-> NONE,
              val |-> <<>>, freed |-> {}, acquired |-> {}]
    /\ lastSet = Both(vA, vB)
    /\ written = Both(vA, vB)
    /\ fresh = Both(TRUE, TRUE)
    /\ loaded = Both(NoValue, NoValue)
    /\ tampered = FALSE
    /\ reset = FALSE
    /\ NoCipherCaller
    /\ NoCallers
    /\ DwordOnly

\* B is constructed after A, whose constructor ended with outcome a
ConstructedAfter(a, vA, vB, rk, rn) ==
    Constructed(a, Set(a.m, NewObject, vB, rk, rn, 2), vA, vB)

\* SafeVar<DWORD> A(vA), B; with both allocations granted and different
\* draws for the two keys
Init ==
    \E vA \in Values \ {DefaultValue}, dA \in Draws, dB \in Draws :
        /\ dA[1][1] < dB[1][1]
        /\ ConstructedAfter(Set(NewMachine, NewObject, vA, dA[1], dA[2], 1),
                            vA, DefaultValue, dB[1], dB[2])

\* the object c becomes o
StoreObject(c, o) ==
    /\ buffer' = [buffer EXCEPT ![c] = o.buffer]
    /\ key' = [key EXCEPT ![c] = o.key]
    /\ realMemory' = [realMemory EXCEPT ![c] = o.realMemory]
    /\ fakeMemoryAddress' = [fakeMemoryAddress EXCEPT ![c] = o.fakeMemoryAddress]
    /\ nonce' = [nonce EXCEPT ![c] = o.nonce]
    /\ lastChecksum' = [lastChecksum EXCEPT ![c] = o.lastChecksum]
    /\ isValid' = [isValid EXCEPT ![c] = o.isValid]

\* the machine becomes m
StoreMachine(m) ==
    /\ allocated' = m.allocated
    /\ mem' = m.mem
    /\ fakeBaseAddress' = m.fakeBaseAddress
    /\ crashed' = m.crashed

Returned(op, c, arg, r) ==
    /\ ops' = ops + 1
    /\ UNCHANGED <<cipher, callers, pool, instantiation>>
    /\ ret' = [op |-> op, c |-> c, arg |-> arg, exc |-> r.exc, val |-> r.val,
               freed |-> r.m.freed, acquired |-> r.m.acquired]

\* the page of d was released or handed out anew by the operation that
\* ended in machine m
Disturbed(d, m) ==
    realMemory[d] # NULL /\ realMemory[d] \in (m.freed \cup m.acquired)

\* history of an operation on c with outcome r: ls, fr and ld are what
\* lastSet[c], fresh[c] and loaded[c] become
Record(c, r, ls, wr, fr, ld) ==
    /\ lastSet' = [d \in Containers |->
                     IF d = c THEN ls
                     ELSE IF Disturbed(d, r.m) THEN NoValue ELSE lastSet[d]]
    /\ written' = [written EXCEPT ![c] = wr]
    /\ fresh' = [d \in Containers |->
                     IF d = c THEN fr
                     ELSE IF Disturbed(d, r.m) THEN FALSE ELSE fresh[d]]
    /\ loaded' = [d \in Containers |->
                     IF d = c THEN ld
                     ELSE IF Disturbed(d, r.m) THEN NoValue ELSE loaded[d]]
    /\ UNCHANGED <<tampered, reset>>

\* the process is alive and the client has operations left
Running == ~crashed /\ ops < MaxOps

\* VirtualAlloc can return h to a Set on o: nothing, or a page that is
\* free once Set's Clear has released the page of o
CanReturn(o, h) == h \in {NULL} \cup (Handles \ (allocated \ {o.realMemory}))

(***************************************************************************)
(* The operations of the client program, one action each.                  *)
(***************************************************************************)
\* an operation on c has ended with outcome r: the object and the machine
\* are what it left, and ls, wr, fr and ld go to the history of c
Done(op, c, arg, r, ls, wr, fr, ld) ==
    /\ StoreObject(c, r.o)
    /\ StoreMachine(r.m)
    /\ Returned(op, c, arg, r)
    /\ Record(c, r, ls, wr, fr, ld)

\* what written[c] becomes after an operation that is Get, then Set: the
\* value of its Set; nothing if its Set failed; unchanged if it did not
\* get as far as Set
WrittenAfter(c, r) ==
    IF r.m.wrote # NoValue THEN r.m.wrote
    ELSE IF r.exc \in {INVALID_STATE, TAMPER_DETECTED, VERIFICATION_FAILURE}
    THEN written[c] ELSE NoValue

\* a Set on c has ended with outcome r
WriteDone(op, c, arg, r, fr) ==
    Done(op, c, arg, r, r.m.wrote, r.m.wrote, fr, NoValue)

\* an operation on c that is Get, then Set, has ended with outcome r
UpdateDone(op, c, r) ==
    Done(op, c, <<>>, r, NoValue, WrittenAfter(c, r), FALSE, NoValue)

\* the constructor of c has ended with outcome r: there is an object only
\* if it returned
ConstructDone(c, value, r) ==
    /\ alive' = [alive EXCEPT ![c] = (r.exc = NONE)]
    /\ WriteDone("Construct", c, value,
                 IF r.exc = NONE THEN r ELSE [r EXCEPT !.o = NewObject],
                 r.exc = NONE)

\* SafeVar(const T& value), and SafeVar() with value = T{}
Construct(c, value, rk, rn, h) ==
    /\ Running /\ ~alive[c] /\ CanReturn(NewObject, h)
    /\ ConstructDone(c, value, Set(Machine, NewObject, value, rk, rn, h))

\* ~SafeVar()
Destroy(c) ==
    /\ Running /\ alive[c]
    /\ alive' = [alive EXCEPT ![c] = FALSE]
    /\ Done("Destroy", c, <<>>,
            [Destructor(Machine, Obj(c)) EXCEPT !.o = NewObject],
            NoValue, NoValue, FALSE, NoValue)

\* a Get on c has ended with outcome r: Get is const, only a fault in it
\* changes the machine
GetDone(c, encrypted, r) ==
    /\ Returned("Get", c, encrypted, r)
    /\ crashed' = r.m.crashed
    /\ UNCHANGED <<alive, members, allocated, mem, fakeBaseAddress, history>>

\* Get(encrypted); operator T(), operator<< and the comparison operators
\* are Get() as well
GetOp(c, encrypted) ==
    /\ Running /\ alive[c]
    /\ GetDone(c, encrypted, Get(Machine, Obj(c), encrypted))

\* Set(value) and operator=(value)
SetOp(c, value, rk, rn, h) ==
    /\ Running /\ alive[c] /\ CanReturn(Obj(c), h)
    /\ WriteDone("Set", c, value, Set(Machine, Obj(c), value, rk, rn, h), FALSE)
    /\ UNCHANGED alive

\* ReKey()
ReKeyOp(c, rk, rn, h) ==
    /\ Running /\ alive[c] /\ CanReturn(Obj(c), h)
    /\ UpdateDone("ReKey", c, ReKey(Machine, Obj(c), rk, rn, h))
    /\ UNCHANGED alive

\* the client keeps its values within Values: the operator can run if Get
\* fails or the value it goes on to write is one of them
InRange(g, op, value) ==
    IF g.exc = NONE THEN Apply(op, g.val, value) \in Values ELSE TRUE

\* the compound assignments and the prefix ++ and --
CompoundOp(c, op, value, rk, rn, h) ==
    /\ Running /\ alive[c] /\ CanReturn(Obj(c), h)
    /\ InRange(Get(Machine, Obj(c), FALSE), op, value)
    /\ UpdateDone("CompoundAssign", c,
                  CompoundAssign(Machine, Obj(c), op, value, rk, rn, h))
    /\ UNCHANGED alive

\* the postfix ++ and --, the result discarded
PostfixOp(c, op, rk, rn, h, elide) ==
    /\ Running /\ alive[c] /\ CanReturn(Obj(c), h)
    /\ InRange(Get(Machine, Obj(c), FALSE), op, 1)
    /\ UpdateDone("Postfix", c,
                  PostfixOperator(Machine, Obj(c), op, rk, rn, h, elide))
    /\ UNCHANGED alive

\* Clear()
ClearOp(c) ==
    /\ Running /\ alive[c]
    /\ Done("Clear", c, <<>>, Clear(Machine, Obj(c)),
            NoValue, NoValue, FALSE, NoValue)
    /\ UNCHANGED alive

\* Serialize() in a build with the given object layout; the bytes are what
\* the call returned
SerializeOp(c, layout) ==
    /\ Running /\ alive[c]
    /\ Returned("Serialize", c, layout, Serialize(Machine, Obj(c), layout))
    /\ UNCHANGED <<alive, members, machine, history>>

\* a Deserialize on c has ended with outcome r; from is the container whose
\* Serialize gave the bytes
DeserializeDone(c, len, r, from) ==
    /\ StoreObject(c, r.o)
    /\ StoreMachine(r.m)
    /\ Returned("Deserialize", c, len, r)
    /\ IF r.val
       THEN Record(c, r, NoValue, NoValue, FALSE,
                   IF fresh[c] /\ from # c /\ Holds(from, written[from])
                   THEN written[from] ELSE NoValue)
       ELSE UNCHANGED history

\* Deserialize(data, len) in the same build as the Serialize just before
\* it, on a buffer that starts with what that Serialize returned: len is
\* the length of that array, or one less, or one more (a byte follows it)
DeserializeOp(c, len) ==
    /\ Running /\ alive[c]
    /\ ret.op = "Serialize" /\ len <= Len(ret.val) + 1
    /\ DeserializeDone(c, len,
                       Deserialize(Machine, Obj(c),
                                   SubSeq(ret.val \o <<0>>, 1, len), len,
                                   ret.arg),
                       ret.c)
    /\ UNCHANGED alive

\* somebody outside the program (a memory editor) flips bits of the first
\* byte of a committed page
TamperMasks == {1}

Tamper(h, mask) ==
    /\ Running /\ h \in allocated
    /\ mem' = [mem EXCEPT ![h][1] = Xor8(@, mask)]
    /\ ops' = ops + 1
    /\ ret' = [op |-> "Tamper", c |-> "", arg |-> h, exc |-> NONE, val |-> <<>>,
               freed |-> {}, acquired |-> {}]
    /\ lastSet' = [d \in Containers |->
                     IF realMemory[d] = h THEN NoValue ELSE lastSet[d]]
    /\ fresh' = [d \in Containers |-> fresh[d] /\ realMemory[d] # h]
    /\ loaded' = [d \in Containers |->
                     IF realMemory[d] = h THEN NoValue ELSE loaded[d]]
    /\ tampered' = TRUE
    /\ UNCHANGED <<alive, members, allocated, fakeBaseAddress, crashed,
                   written, reset, cipher, callers, pool,
                   instantiation>>

\* FakeMemoryAllocator::ResetAllocator()
ResetAllocator ==
    /\ Running
    /\ ops' = ops + 1
    /\ fakeBaseAddress' = FAKE_BASE
    /\ ret' = [op |-> "ResetAllocator", c |-> "", arg |-> <<>>, exc |-> NONE,
               val |-> <<>>, freed |-> {}, acquired |-> {}]
    /\ reset' = TRUE
    /\ UNCHANGED <<alive, members, allocated, mem, crashed,
                   lastSet, written, fresh, loaded, tampered, cipher,
                   callers, pool, instantiation>>

Next ==
    \/ \E c \in Containers, value \in Values, rnd \in Draws,
          h \in Handles \cup {NULL} :
            \/ Construct(c, value, rnd[1], rnd[2], h)
            \/ SetOp(c, value, rnd[1], rnd[2], h)
    \/ \E c \in Containers : Destroy(c) \/ ClearOp(c)
    \/ \E c \in Containers, layout \in Layouts : SerializeOp(c, layout)
    \/ \E c \in Containers, encrypted \in BOOLEAN : GetOp(c, encrypted)
    \/ \E c \in Containers, rnd \in Draws, h \in Handles \cup {NULL} :
            \/ ReKeyOp(c, rnd[1], rnd[2], h)
            \/ \E op \in Operators, value \in Operands :
                    CompoundOp(c, op, value, rnd[1], rnd[2], h)
            \/ \E op \in {"++", "--"}, elide \in BOOLEAN :
                    PostfixOp(c, op, rnd[1], rnd[2], h, elide)
    \/ \E c \in Containers,
          len \in {SERIALIZED_SIZE - 1, SERIALIZED_SIZE, SERIALIZED_SIZE + 1} :
            DeserializeOp(c, len)
    \/ \E h \in Handles, mask \in TamperMasks : Tamper(h, mask)
    \/ ResetAllocator

Spec == Init /\ [][Next]_vars

(***************************************************************************)
(* The properties of the specification, stated on the model.               *)
(***************************************************************************)
\* C1.  Round trip: a Get() on a container whose last operation (other than
\* Get and Serialize) was a successful Set(v) or construction with v, and
\* whose page nothing but that Set has written or released since, returns
\* and returns v, whatever was done before that Set.
RoundTrip ==
    (ret.op = "Get" /\ ret.arg = FALSE /\ lastSet[ret.c] # NoValue)
        => (ret.exc = NONE /\ ret.val = lastSet[ret.c])

\* a Get() that returned the value of a Set made on a container that had
\* been in use before
RoundTripAfterReuse ==
    /\ ret.op = "Get" /\ ret.arg = FALSE
    /\ ops = MaxOps /\ ~fresh[ret.c]
    /\ lastSet[ret.c] # NoValue
    /\ ret.exc = NONE /\ ret.val = lastSet[ret.c]

\* C2.  Tamper detection: a Get, in raw mode or not, on a container that a
\* successful Set has filled and whose real allocation holds bytes that
\* differ from the in-object ciphertext throws "Memory validation failed"
\* and returns nothing.
TamperDetection ==
    (/\ ret.op = "Get"
     /\ written[ret.c] # NoValue
     /\ realMemory[ret.c] \in allocated
     /\ mem[realMemory[ret.c]] # buffer[ret.c])
        => (ret.exc = TAMPER_DETECTED /\ ret.val = <<>>)

\* a raw-mode Get that threw on a page an outsider has overwritten
TamperDetectedInRawMode ==
    /\ ret.op = "Get" /\ ret.arg = TRUE
    /\ tampered
    /\ written[ret.c] # NoValue
    /\ realMemory[ret.c] \in allocated
    /\ mem[realMemory[ret.c]] # buffer[ret.c]
    /\ ret.exc = TAMPER_DETECTED

\* C3.  Mirror invariant: as long as nothing outside the program has
\* written to memory, a container whose isValid is true holds a real
\* allocation whose bytes equal the in-object ciphertext.
MirrorInvariant ==
    ~tampered =>
        \A c \in Containers :
            (alive[c] /\ isValid[c]) =>
                (realMemory[c] \in allocated /\ mem[realMemory[c]] = buffer[c])

\* C4.  Validity lifecycle: isValid turns true only in an operation whose
\* Set succeeded, and it is false after every Clear.
ValidityLifecycle ==
    [][\A c \in Containers :
          /\ (~isValid[c] /\ isValid'[c])
                => (ret'.c = c /\ written'[c] # NoValue)
          /\ (ret'.op = "Clear" /\ ret'.c = c /\ ret'.exc = NONE)
                => ~isValid'[c]]_vars

\* C5.  Allocation failure: a Set whose allocation request is denied throws
\* "Memory allocation failed" and leaves the container Cleared: no real
\* allocation, ciphertext, key and nonce zero, fake token zero, isValid
\* false.
AllocationFailureLeavesCleared ==
    (ret.op = "Set" /\ ret.acquired = {} /\ ret.exc \notin {CRASH, FREE_FAILURE})
        => /\ ret.exc = ALLOCATION_FAILURE
           /\ realMemory[ret.c] = NULL
           /\ buffer[ret.c] = Zeros(VALUE_SIZE)
           /\ key[ret.c] = Zeros(VALUE_SIZE)
           /\ nonce[ret.c] = Zeros(12)
           /\ fakeMemoryAddress[ret.c] = 0
           /\ ~isValid[ret.c]

\* C6.  Serialize/Deserialize fixed point: a freshly constructed B that is
\* handed all the bytes A.Serialize() returned, A Valid and holding v,
\* returns true from Deserialize, and its next Get() returns v.
SerializeDeserializeFixedPoint ==
    /\ (ret.op = "Deserialize" /\ loaded[ret.c] # NoValue) => ret.val = TRUE
    /\ (ret.op = "Get" /\ ret.arg = FALSE /\ loaded[ret.c] # NoValue)
            => (ret.exc = NONE /\ ret.val = loaded[ret.c])

\* C7.  Exclusive ownership: no two containers hold the same real
\* allocation, a page a container holds has not been released, no released
\* page is touched again (the process does not fault), and no page is left
\* allocated that no container holds.
ExclusiveOwnership ==
    /\ ~crashed
    /\ \A c \in Containers, d \in Containers :
            (c # d /\ alive[c] /\ alive[d] /\ realMemory[c] # NULL)
                => realMemory[c] # realMemory[d]
    /\ \A c \in Containers :
            (alive[c] /\ realMemory[c] # NULL) => realMemory[c] \in allocated
    /\ \A h \in allocated : \E c \in Containers : alive[c] /\ realMemory[c] = h

\* the object c and the machine after a step
ObjNext(c) ==
    [buffer |-> buffer'[c], key |-> key'[c], realMemory |-> realMemory'[c],
     fakeMemoryAddress |-> fakeMemoryAddress'[c], nonce |-> nonce'[c],
     lastChecksum |-> lastChecksum'[c], isValid |-> isValid'[c]]

MachineNext ==
    [allocated |-> allocated', mem |-> mem',
     fakeBaseAddress |-> fakeBaseAddress', crashed |-> crashed',
     freed |-> {}, acquired |-> {}, wrote |-> NoValue]

\* what a Get() on c returns when it follows the step
GetNext(c) == Get(MachineNext, ObjNext(c), FALSE)

\* what a ReKey step on c, Valid, untampered and holding v, has to do
ReKeyRotates(c, v) ==
    /\ ret'.exc = NONE
    /\ GetNext(c).exc = NONE /\ GetNext(c).val = v
    /\ ret'.freed = {realMemory[c]}
    /\ ret'.acquired = {realMemory'[c]}
    /\ realMemory'[c] \in allocated'

KeyNonceCiphertextConsistent ==
    \A c \in Containers :
        (alive[c] /\ written[c] # NoValue)
            => Deobfuscate(Obj(c), buffer[c]) = written[c]

\* a compound assignment has rotated key, nonce and ciphertext of a
\* container, and they decrypt to the value it wrote
RotatedByOperator ==
    /\ ret.op = "CompoundAssign" /\ ret.exc = NONE
    /\ written[ret.c] # NoValue
    /\ Deobfuscate(Obj(ret.c), buffer[ret.c]) = written[ret.c]

\* C10.  A Get on a container with no real allocation throws "Invalid
\* memory state" (not the tamper error, although the validation would fail
\* as well) and returns nothing.
GetWithoutAllocation ==
    (ret.op = "Get" /\ realMemory[ret.c] = NULL)
        => (ret.exc = INVALID_STATE /\ ret.val = <<>>)

\* a Get that threw "Invalid memory state" on a container that a Clear has
\* left without allocation
GetAfterClear ==
    /\ ret.op = "Get" /\ realMemory[ret.c] = NULL
    /\ alive[ret.c] /\ buffer[ret.c] = Zeros(VALUE_SIZE)
    /\ ret.exc = INVALID_STATE

\* C11.  Clear is idempotent and total: a Clear() on a container in any
\* state returns and leaves it with no real allocation, ciphertext, key and
\* nonce zero and fake token zero; every page it released holds zeros; and a
\* Clear() that follows a Clear() of the same container changes no member,
\* releases nothing and leaves the process's memory as it was.
ClearIdempotentTotal ==
    [][\A c \in Containers :
          (ret'.op = "Clear" /\ ret'.c = c)
            => /\ ret'.exc = NONE
               /\ realMemory'[c] = NULL
               /\ buffer'[c] = Zeros(VALUE_SIZE)
               /\ key'[c] = Zeros(VALUE_SIZE)
               /\ nonce'[c] = Zeros(12)
               /\ fakeMemoryAddress'[c] = 0
               /\ \A h \in ret'.freed : mem'[h] = Zeros(VALUE_SIZE)
               /\ (ret.op = "Clear" /\ ret.c = c /\ ret.exc = NONE)
                    => /\ ObjNext(c) = Obj(c)
                       /\ ret'.freed = {}
                       /\ UNCHANGED <<allocated, mem>>]_vars

\* C12.  Deserialize with a length other than 2 * sizeof(T) + 12 returns
\* false, throws nothing and leaves every member of the container, the real
\* allocations and their content and the fake allocator unchanged.
DeserializeRejectsLength ==
    [][(ret'.op = "Deserialize" /\ ret'.arg # SERIALIZED_SIZE)
            => /\ ret'.exc = NONE /\ ret'.val = FALSE
               /\ UNCHANGED <<alive, members, machine>>]_vars

\* a Deserialize of a length that is one too large has returned false on a
\* container that holds a value
DeserializeRejectedTooLong ==
    /\ ret.op = "Deserialize" /\ ret.arg = SERIALIZED_SIZE + 1
    /\ ret.val = FALSE
    /\ isValid[ret.c] /\ realMemory[ret.c] \in allocated
    /\ written[ret.c] # NoValue
    /\ buffer[ret.c] # Zeros(VALUE_SIZE)

\* C17.  Checksum invariant: in a container whose isValid is true and that
\* holds a real allocation, the stored checksum is the FNV-1a digest of the
\* ciphertext in the object.
ChecksumInvariant ==
    \A c \in Containers :
        (alive[c] /\ isValid[c] /\ realMemory[c] \in allocated)
            => lastChecksum[c] = ComputeChecksumFNV(buffer[c])

\* C18.  Wire format: Serialize returns 2 * sizeof(T) + 12 bytes, the nonce,
\* then the key, then the ciphertext encrypted with the nonce and the
\* effective key of Set and Get, the stored key zero-padded to 32 bytes; and
\* a Deserialize that returns true leaves as ciphertext the payload
\* encrypted with the nonce and the zero-padded key it has read.
WireFormat ==
    [][/\ ret'.op = "Serialize" =>
            /\ Len(ret'.val) = 2 * VALUE_SIZE + 12
            /\ SubSeq(ret'.val, 1, 12) = nonce[ret'.c]
            /\ SubSeq(ret'.val, 13, 12 + VALUE_SIZE) = key[ret'.c]
            /\ SubSeq(ret'.val, 13 + VALUE_SIZE, 12 + 2 * VALUE_SIZE)
                    = Obfuscate(Obj(ret'.c), buffer[ret'.c])
       /\ (ret'.op = "Deserialize" /\ ret'.val = TRUE) =>
            /\ nonce'[ret'.c] = SubSeq(ret.val, 1, 12)
            /\ key'[ret'.c] = SubSeq(ret.val, 13, 12 + VALUE_SIZE)
            /\ buffer'[ret'.c]
                    = Deobfuscate(ObjNext(ret'.c),
                                  SubSeq(ret.val, 13 + VALUE_SIZE,
                                         12 + 2 * VALUE_SIZE))]_vars

FailedMutationLeavesState ==
    [][\A c \in Containers :
          (/\ ret'.op \in {"ReKey", "CompoundAssign"} /\ ret'.c = c
           /\ Get(Machine, Obj(c), FALSE).exc
                    \in {INVALID_STATE, TAMPER_DETECTED})
            => /\ ret'.exc = Get(Machine, Obj(c), FALSE).exc
               /\ ret'.freed = {} /\ ret'.acquired = {}
               /\ written'[c] = written[c]
               /\ UNCHANGED <<alive, members, machine>>]_vars

\* a compound assignment has thrown "Memory validation failed" on a
\* container whose page has been overwritten, and the page still differs
\* from the ciphertext
MutationRefusedOnTamperedPage ==
    /\ ret.op = "CompoundAssign" /\ ret.exc = TAMPER_DETECTED
    /\ tampered
    /\ isValid[ret.c] /\ realMemory[ret.c] \in allocated
    /\ mem[realMemory[ret.c]] # buffer[ret.c]
    /\ written[ret.c] # NoValue

(***************************************************************************)
(* ChaCha20::Encrypt as a function of its arguments: a caller that, like   *)
(* TestSymmetry, encrypts a buffer and then encrypts the result, with the  *)
(* same key and nonce.                                                     *)
(***************************************************************************)
\* the longest buffer of the model
MaxLength == 130
\* the buffers of one length are numbered 0..MaxPattern
MaxPattern == 1

\* lengths below, at and above one and two blocks of 64 bytes
CipherLengths == {1, VALUE_SIZE, 63, 64, 65, 128, MaxLength}

\* uint8_t input[len]: all zero (TestSymmetry), or bytes that differ
CipherInputs ==
    {Bytes([i \in 1..len |-> (p * (83 + 7 * i)) % 256]) :
        len \in CipherLengths, p \in 0..MaxPattern}

\* the key and the nonce of TestSymmetry
TestKey == FullKey(<<159, 93, 33, 108>>)

TestNonce == <<204, 188, 84, 241, 1, 249, 245, 124, 120, 88, 107, 235>>

\* 32-byte keys: of TestSymmetry, a stored key zero-padded, 32 random bytes
CipherKeys == {TestKey, FullKey(GenerateKey(RandomStreams[1])), RandomStreams[2]}

CipherNonces == {TestNonce, GenerateNonce(RandomStreams[1]), Zeros(12)}

\* no container exists and nothing is allocated
NoProgram ==
    /\ alive = Both(FALSE, FALSE)
    /\ buffer = Both(NewObject.buffer, NewObject.buffer)
    /\ key = Both(NewObject.key, NewObject.key)
    /\ realMemory = Both(NULL, NULL)
    /\ fakeMemoryAddress = Both(0, 0)
    /\ nonce = Both(NewObject.nonce, NewObject.nonce)
    /\ lastChecksum = Both(NewObject.lastChecksum, NewObject.lastChecksum)
    /\ isValid = Both(FALSE, FALSE)
    /\ allocated = {}
    /\ mem = NewMachine.mem
    /\ fakeBaseAddress = FAKE_BASE
    /\ crashed = FALSE
    /\ ops = 0
    /\ ret = [op |-> "init", c |-> "", arg |-> <<>>, exc |-> NONE,
              val |-> <<>>, freed |-> {}, acquired |-> {}]
    /\ lastSet = Both(NoValue, NoValue)
    /\ written = Both(NoValue, NoValue)
    /\ fresh = Both(FALSE, FALSE)
    /\ loaded = Both(NoValue, NoValue)
    /\ tampered = FALSE
    /\ reset = FALSE

CipherInit ==
    /\ NoProgram
    /\ NoCallers
    /\ DwordOnly
    /\ cipherKey \in CipherKeys
    /\ cipherNonce \in CipherNonces
    /\ cipherInput \in CipherInputs
    /\ cipherOutput = <<>>
    /\ passes = 0

\* ChaCha20::Encrypt(input, encrypted, ...), then
\* ChaCha20::Encrypt(encrypted, decrypted, ...)
EncryptCall ==
    /\ passes < 2
    /\ cipherOutput' = Encrypt(IF passes = 0 THEN cipherInput ELSE cipherOutput,
                               Len(cipherInput), cipherKey, cipherNonce)
    /\ passes' = passes + 1
    /\ UNCHANGED <<cipherKey, cipherNonce, cipherInput>>
    /\ UNCHANGED <<alive, members, machine, ops, ret, history, callers, pool,
                   instantiation>>

CipherNext == EncryptCall

CipherSpec == CipherInit /\ [][CipherNext]_vars

\* C13.  Cipher involution: for a 32-byte key, a 12-byte nonce and a buffer
\* b of any of the lengths, ChaCha20::Encrypt applied to b and then to its
\* own output, with the same key and nonce, gives b.
CipherInvolution == (passes = 2) => (cipherOutput = cipherInput)

\* a buffer of more than two blocks whose length is no multiple of 64 has
\* been encrypted to something else, and that encrypted back to the buffer
CipherInvolutionBeyondTwoBlocks ==
    /\ passes = 2
    /\ Len(cipherInput) > 128 /\ Len(cipherInput) % 64 # 0
    /\ cipherInput # Zeros(Len(cipherInput))
    /\ cipherOutput = cipherInput
    /\ Encrypt(cipherInput, Len(cipherInput), cipherKey, cipherNonce)
            # cipherInput

(***************************************************************************)
(* FakeMemoryAllocator under threads.  Each thread calls                   *)
(* AllocateFakeMemory(size) or ResetAllocator(), one statement a step.     *)
(*                                                                         *)
(* A size_t in the upper half of its range is written as the negative      *)
(* number it is congruent to modulo 2^w, w the width of size_t and         *)
(* uintptr_t: -16 is size_t(-16) = SIZE_MAX - 15.  The counter stays       *)
(* within 0..2^31 in the model, so + on these numbers is the addition      *)
(* modulo 2^w of the program.                                              *)
(***************************************************************************)
\* the sizes the threads ask for: a byte, sizeof(T), and the size_t for
\* which size + 0x10 is 0
FakeSizes == {1, VALUE_SIZE, 0 - FAKE_PAD}

\* the program has built no container; the threads are about to start
FakeInit == NoProgram /\ NoCipherCaller /\ NoCallers /\ DwordOnly

\* what the call of t leaves alone: the containers, the pages, the cipher
\* caller
FakeFrame ==
    UNCHANGED <<alive, members, allocated, mem, crashed, ret, lastSet,
                written, fresh, loaded, tampered, cipher, pool,
                instantiation, inCall>>

\* line 201, std::lock_guard<std::mutex> lock(mtx): thread t enters
\* AllocateFakeMemory(sz) and acquires the mutex
Lock(t, sz) ==
    /\ pc[t] = "idle" /\ ops < MaxCalls /\ mtx = NoThread
    /\ mtx' = t
    /\ pc' = [pc EXCEPT ![t] = "load"]
    /\ request' = [request EXCEPT ![t] = sz]
    /\ ops' = ops + 1
    /\ FakeFrame
    /\ UNCHANGED <<fakeBaseAddress, reset, allocatedAddress, issued, returned>>

\* line 202, uintptr_t allocatedAddress = fakeBaseAddress
Load(t) ==
    /\ pc[t] = "load"
    /\ allocatedAddress' =
            [allocatedAddress EXCEPT ![t] =
                AllocateFakeMemory(Machine, request[t]).val]
    /\ issued' = Append(issued, [token |-> fakeBaseAddress,
                                 size |-> request[t], by |-> t])
    /\ pc' = [pc EXCEPT ![t] = "add"]
    /\ FakeFrame
    /\ UNCHANGED <<fakeBaseAddress, reset, ops, mtx, request, returned>>

\* line 203, fakeBaseAddress += size + 0x10.  The build adds to the value it
\* loaded in line 202, or loads the counter again: the same value, unless a
\* ResetAllocator has written in between (a data race)
Add(t) ==
    /\ pc[t] = "add"
    /\ \E loadedValue \in {allocatedAddress[t], fakeBaseAddress} :
            fakeBaseAddress' =
                AllocateFakeMemory(
                    [Machine EXCEPT !.fakeBaseAddress = loadedValue],
                    request[t]).m.fakeBaseAddress
    /\ pc' = [pc EXCEPT ![t] = "return"]
    /\ FakeFrame
    /\ UNCHANGED <<reset, ops, mtx, request, allocatedAddress, issued, returned>>

\* line 204, return allocatedAddress: the lock_guard releases the mutex
Return(t) ==
    /\ pc[t] = "return"
    /\ mtx' = NoThread
    /\ returned' = Append(returned, [op |-> "AllocateFakeMemory",
                                     size |-> request[t],
                                     val |-> allocatedAddress[t]])
    /\ pc' = [pc EXCEPT ![t] = "idle"]
    /\ FakeFrame
    /\ UNCHANGED <<fakeBaseAddress, reset, ops, request, allocatedAddress, issued>>

\* ResetAllocator() called by thread t, lines 207-210: one store, and no
\* lock
Reset(t) ==
    /\ pc[t] = "idle" /\ ops < MaxCalls
    /\ fakeBaseAddress' = FAKE_BASE
    /\ reset' = TRUE
    /\ returned' = Append(returned, [op |-> "ResetAllocator", size |-> 0,
                                     val |-> 0])
    /\ ops' = ops + 1
    /\ FakeFrame
    /\ UNCHANGED <<mtx, pc, request, allocatedAddress, issued>>

FakeNext ==
    \E t \in Threads :
        \/ \E sz \in FakeSizes : Lock(t, sz)
        \/ Load(t)
        \/ Add(t)
        \/ Return(t)
        \/ Reset(t)

FakeSpec == FakeInit /\ [][FakeNext]_vars

\* the call wrapped the counter around 2^w
Wraps(call) == call.size < 0

\* the tokens issued so far are what a counter gives that every call reads
\* and then advances by its size + 0x10: each is the token before it plus
\* the size before it plus 0x10, so that they increase strictly and the
\* ranges [token, token + size + 0x10) lie one after the other
FakeTokensChained ==
    \A j \in 1..Len(issued) :
        /\ j = 1 => issued[j].token = FAKE_BASE
        /\ j > 1 => issued[j].token
                        = issued[j - 1].token + issued[j - 1].size + FAKE_PAD
        /\ \A i \in 1..(j - 1) :
                /\ issued[i].token < issued[j].token
                /\ issued[i].token + issued[i].size + FAKE_PAD <= issued[j].token

\* C14, as the code has it.  Fake allocator monotonicity: as long as
\* ResetAllocator has not run and no call has wrapped the counter around
\* 2^w, each AllocateFakeMemory(size) returns the counter value current at
\* the call and advances it by size + 0x10, so that under any interleaving
\* of the threads the tokens increase strictly in the order of the calls, no
\* two are equal and the ranges [token, token + size + 0x10) are disjoint.
FakeTokensIncreaseUntilWrap ==
    (~reset /\ \A i \in 1..Len(issued) : ~Wraps(issued[i]))
        => FakeTokensChained

\* C14, as the specification has it: the same with no Reset, whatever the
\* sizes.
FakeTokensIncrease ==
    ~reset =>
        \A j \in 1..Len(issued), i \in 1..Len(issued) :
            i < j => /\ issued[i].token < issued[j].token
                     /\ issued[i].token + issued[i].size + FAKE_PAD
                            <= issued[j].token

\* two threads have been issued tokens in turn, for different sizes, and
\* the third token lies behind the ranges of the first two
FakeTokensInterleaved ==
    /\ ~reset
    /\ Len(issued) = 3 /\ Len(returned) = 3
    /\ \A i \in 1..3 : ~Wraps(issued[i])
    /\ issued[1].by # issued[2].by
    /\ issued[1].size # issued[2].size
    /\ issued[3].token = FAKE_BASE + issued[1].size + issued[2].size + 2 * FAKE_PAD

\* the counter after the calls of a sequence made one after the other from
\* the initial counter, if each AllocateFakeMemory in it returns what the
\* sequence says it returned; -1 if one does not
Replay(calls) ==
    LET F[i \in 0..Len(calls)] ==
            IF i = 0 THEN FAKE_BASE
            ELSE IF calls[i].op = "ResetAllocator"
            THEN (IF F[i - 1] = -1 THEN -1 ELSE FAKE_BASE)
            ELSE IF F[i - 1] # calls[i].val THEN -1
            ELSE AllocateFakeMemory([fakeBaseAddress |-> F[i - 1]],
                                    calls[i].size).m.fakeBaseAddress
    IN  F[Len(calls)]

\* C15.  Fake allocator linearizability: when no call is in progress, the
\* values the calls have returned and the counter are those of the same
\* calls, AllocateFakeMemory and ResetAllocator alike, made one after the
\* other in some order.
FakeAllocatorLinearizable ==
    (\A t \in Threads : pc[t] = "idle")
        => \E p \in Permutations(1..Len(returned)) :
                Replay([i \in 1..Len(returned) |-> returned[p[i]]])
                    = fakeBaseAddress

(***************************************************************************)
(* MemoryPool under threads: SafeVar<T>::memoryPool, used by operator new  *)
(* (Allocate) and operator delete (Free).  A thread frees only blocks it   *)
(* has been handed and has not freed yet.                                  *)
(***************************************************************************)
PoolInit == NoProgram /\ NoCipherCaller /\ NoCallers /\ DwordOnly

\* what a call to the pool leaves alone
PoolFrame ==
    UNCHANGED <<alive, members, fakeBaseAddress, crashed, ret, history,
                cipher, mtx, allocatedAddress, inCall, issued,
                instantiation>>

\* lines 225 and 236, std::lock_guard<std::mutex> lock(mtx): thread t
\* enters Allocate (what = "Allocate") or Free of the i-th block it holds
\* and acquires the mutex
PoolLock(t, what, i) ==
    /\ pc[t] = "idle" /\ ops < MaxPoolCalls /\ poolMtx = NoThread
    /\ IF what = "Free"
       THEN /\ i \in 1..Len(held[t])
            /\ request' = [request EXCEPT ![t] = held[t][i]]
            /\ held' = [held EXCEPT ![t] =
                            SubSeq(@, 1, i - 1) \o SubSeq(@, i + 1, Len(@))]
       ELSE /\ i = 0
            /\ request' = [request EXCEPT ![t] = VALUE_SIZE]
            /\ UNCHANGED held
    /\ poolMtx' = t
    /\ pc' = [pc EXCEPT ![t] = what]
    /\ ops' = ops + 1
    /\ PoolFrame
    /\ UNCHANGED <<allocated, mem, freeBlocks, returned>>

\* the call of thread t has ended with outcome r: the mutex is released
PoolReturn(t, r) ==
    /\ allocated' = r.m.allocated
    /\ mem' = r.m.mem
    /\ freeBlocks' = r.blocks
    /\ held' = [held EXCEPT ![t] = IF r.exc = NONE /\ pc[t] = "Allocate"
                                   THEN Append(@, r.val) ELSE @]
    /\ returned' = Append(returned, [op |-> pc[t], size |-> request[t],
                                     val |-> r.val, exc |-> r.exc, by |-> t])
    /\ poolMtx' = NoThread
    /\ pc' = [pc EXCEPT ![t] = "idle"]
    /\ PoolFrame
    /\ UNCHANGED <<ops, request>>

\* lines 226-231: the body of Allocate in thread t
AllocateCall(t, h) ==
    /\ pc[t] = "Allocate"
    /\ h \in {NULL} \cup (Handles \ allocated)
    /\ PoolReturn(t, Allocate(Machine, freeBlocks, h))

\* line 237: the body of Free in thread t
FreeCall(t) ==
    /\ pc[t] = "Free"
    /\ PoolReturn(t, [m |-> Machine, blocks |-> Free(freeBlocks, request[t]),
                      exc |-> NONE, val |-> NULL])

PoolNext ==
    \E t \in Threads :
        \/ PoolLock(t, "Allocate", 0)
        \/ \E i \in 1..MaxHandles : PoolLock(t, "Free", i)
        \/ \E h \in Handles \cup {NULL} : AllocateCall(t, h)
        \/ FreeCall(t)

PoolSpec == PoolInit /\ [][PoolNext]_vars

\* the last call that returned, after a step
LastReturned == returned'[Len(returned')]

\* after a step, no block is held twice: not by two threads, and not twice
\* by one
NoBlockHeldTwice ==
    \A t \in Threads, u \in Threads :
        \A i \in 1..Len(held'[t]), j \in 1..Len(held'[u]) :
            (t # u \/ i # j) => held'[t][i] # held'[u][j]

\* C16.  Pool allocator recycling: an Allocate that finds the free list
\* non-empty returns its last block, the most recently freed one, removes it
\* from the list and does not call the real allocator; one that finds it
\* empty returns a block new from the real allocator, or throws "Memory
\* allocation failed"; a Free appends its block to the free list and does
\* nothing else; and, under any interleaving of the threads, no block is
\* held by two callers, or twice by one.
PoolRecycles ==
    [][/\ Len(returned') > Len(returned) =>
            /\ (LastReturned.op = "Allocate" /\ freeBlocks # <<>>) =>
                    /\ LastReturned.exc = NONE
                    /\ LastReturned.val = freeBlocks[Len(freeBlocks)]
                    /\ freeBlocks' = SubSeq(freeBlocks, 1, Len(freeBlocks) - 1)
                    /\ UNCHANGED <<allocated, mem>>
            /\ (LastReturned.op = "Allocate" /\ freeBlocks = <<>>) =>
                    /\ freeBlocks' = <<>>
                    /\ IF LastReturned.exc = NONE
                       THEN /\ LastReturned.val \notin allocated
                            /\ allocated' = allocated \cup {LastReturned.val}
                       ELSE /\ LastReturned.exc = ALLOCATION_FAILURE
                            /\ UNCHANGED <<allocated, mem>>
            /\ LastReturned.op = "Free" =>
                    /\ freeBlocks' = Append(freeBlocks, LastReturned.size)
                    /\ UNCHANGED <<allocated, mem>>
       /\ NoBlockHeldTwice]_vars

\* two blocks have been freed, and an Allocate of another thread than the
\* one that freed last has been handed the block freed last
PoolRecycledLastFreed ==
    /\ Len(returned) = 5
    /\ returned[3].op = "Free" /\ returned[4].op = "Free"
    /\ returned[3].size # returned[4].size
    /\ returned[5].op = "Allocate" /\ returned[5].exc = NONE
    /\ returned[5].val = returned[4].size
    /\ returned[5].by # returned[4].by
    /\ freeBlocks = <<returned[3].size>>
    /\ held[returned[5].by] = <<returned[5].val>>

(***************************************************************************)
(* The client program next to an adversary that writes to the memory of    *)
(* the process: to the pages, as Tamper does, and to the objects.          *)
(***************************************************************************)
\* somebody outside the program flips the same bits of the first byte of
\* the ciphertext in the object c and of the page c holds: what ret keeps
\* is the ciphertext that was in the object
Overwrite(c, mask) ==
    /\ Running /\ alive[c] /\ realMemory[c] \in allocated
    /\ buffer' = [buffer EXCEPT ![c][1] = Xor8(@, mask)]
    /\ mem' = [mem EXCEPT ![realMemory[c]] = buffer'[c]]
    /\ ops' = ops + 1
    /\ ret' = [op |-> "Overwrite", c |-> c, arg |-> mask, exc |-> NONE,
               val |-> buffer[c], freed |-> {}, acquired |-> {}]
    /\ lastSet' = [d \in Containers |->
                     IF realMemory[d] = realMemory[c] THEN NoValue
                     ELSE lastSet[d]]
    /\ fresh' = [d \in Containers |->
                     fresh[d] /\ realMemory[d] # realMemory[c]]
    /\ loaded' = [d \in Containers |->
                     IF realMemory[d] = realMemory[c] THEN NoValue
                     ELSE loaded[d]]
    /\ tampered' = TRUE
    /\ UNCHANGED <<alive, key, realMemory, fakeMemoryAddress, nonce,
                   lastChecksum, isValid, allocated, fakeBaseAddress, crashed,
                   written, reset, cipher, callers, pool,
                   instantiation>>

AdversaryNext ==
    \/ Next
    \/ \E c \in Containers, mask \in TamperMasks : Overwrite(c, mask)

AdversarySpec == Init /\ [][AdversaryNext]_vars

\* C21.  The decrypt-then-re-encrypt check of Get cannot fail: in every
\* container, re-encrypting the decrypted ciphertext under the stored key
\* and nonce gives the stored ciphertext, so no operation throws "Decryption
\* verification failed"; and a Get that follows an overwrite of the
\* ciphertext of a Valid container in the object and in its page alike
\* throws nothing and returns another value than the overwritten ciphertext
\* stood for (in raw mode: other bytes than the overwritten ciphertext).
VerificationCannotFail ==
    [][/\ ret'.exc # VERIFICATION_FAILURE
       /\ \A c \in Containers :
            Obfuscate(ObjNext(c), Deobfuscate(ObjNext(c), buffer'[c]))
                = buffer'[c]
       /\ (/\ ret.op = "Overwrite" /\ isValid[ret.c]
           /\ ret'.op = "Get" /\ ret'.c = ret.c)
            => /\ ret'.exc = NONE
               /\ ret'.val # (IF ret'.arg THEN ret.val
                              ELSE Deobfuscate(Obj(ret.c), ret.val))]_vars

\* a Get() has returned, with no error, another value than the one the last
\* Set stored, from a container whose ciphertext and page have been
\* overwritten alike
OverwriteUndetected ==
    /\ ret.op = "Get" /\ ret.arg = FALSE /\ ret.exc = NONE
    /\ tampered
    /\ written[ret.c] # NoValue /\ ret.val # written[ret.c]
    /\ isValid[ret.c] /\ realMemory[ret.c] \in allocated
    /\ mem[realMemory[ret.c]] = buffer[ret.c]

(***************************************************************************)
(* SafeVar<T> for other T than DWORD: "SafeVar<T> A(value);" and then      *)
(* A.Serialize(), for a trivially copyable T of valueSize bytes.  The      *)
(* members are those of the container A.                                   *)
(*                                                                         *)
(* InitializeCryptoState copies key.begin()..key.end(), valueSize bytes,   *)
(* to fullKey.begin().  fullKey holds 32 bytes: for valueSize > 32 the     *)
(* copy runs past its end, which is undefined.  A build with checked       *)
(* iterators stops the process there; in a build without them the bytes    *)
(* past the end land in temp, the member that follows fullKey, and         *)
(* temp.fill(0) wipes them.                                                *)
(***************************************************************************)
\* the largest sizeof(T) of the model
MaxSize == 40

\* sizeof(T): below 32 (where the members follow the key without padding),
\* 32, and above
Sizes == {8, 24, 32, 33, MaxSize}

\* the value number p of a T of n bytes: T{} for p = 0
SizedValue(n, p) == Bytes([i \in 1..n |-> (p * (83 + 7 * i)) % 256])

\* GenerateKey for VALUE_SIZE = n
GenerateKeySized(n, rnd) == Bytes([i \in 1..n |-> IF i <= 32 THEN rnd[i] ELSE 0])

\* InitializeCryptoState on the stored key k: copied is the set of the
\* positions, counted from fullKey.begin(), that std::copy writes
InitializeCryptoState(k) ==
    [fullKey |-> FullKey(k), temp |-> Zeros(Len(k)), copied |-> 1..Len(k)]

\* the iterations first..last of the loop of ComputeChecksumFNV, started
\* with hash: F[i] holds the hash after iteration i (a set of one element,
\* so that an iteration starts from the computed hash of the one before it)
ChecksumLoop(hash, data, first, last) ==
    LET F[i \in (first - 1)..last] ==
            IF i < first THEN {hash}
            ELSE {FnvStep(h, data[i]) : h \in F[i - 1]}
    IN  F[last]

\* ComputeChecksumFNV on a buffer of any length, its loop taken eight
\* iterations at a time
ComputeChecksumSized(data) ==
    LET G[k \in 0..((Len(data) + 7) \div 8)] ==
            IF k = 0 THEN {FNV_SEED}
            ELSE UNION {ChecksumLoop(h, data, 8 * k - 7,
                                     IF 8 * k < Len(data) THEN 8 * k
                                     ELSE Len(data)) : h \in G[k - 1]}
    IN  CHOOSE h \in G[(Len(data) + 7) \div 8] : TRUE

\* Obfuscate for VALUE_SIZE = Len(value), from the Encrypt call on: cs is
\* the CryptoState it has initialized
ObfuscateSized(cs, value, n) == Encrypt(value, Len(value), cs.fullKey, n)

\* Set on the default member initializers from line 393 on, the allocation
\* granted: keyed holds the new key and nonce, ciphertext is what Obfuscate
\* wrote
SetSized(keyed, ciphertext, h) ==
    [keyed EXCEPT !.buffer = ciphertext,
                  !.realMemory = h,
                  !.lastChecksum = ComputeChecksumSized(ciphertext),
                  !.fakeMemoryAddress = fakeBaseAddress,
                  !.isValid = TRUE]

\* Serialize that emits the stored ciphertext as it is
SerializeSizedPlain(o, layout) == o.nonce \o o.key \o o.buffer

\* Serialize for VALUE_SIZE = Len(o.buffer)
SerializeSized(o, layout) ==
    o.nonce \o o.key
    \o Encrypt(o.buffer, Len(o.buffer), KeyData(o, layout), o.nonce)

SizedInit ==
    /\ NoProgram /\ NoCipherCaller /\ NoCallers
    /\ valueSize \in Sizes
    /\ cryptoState = NoCryptoState

SizedFrame ==
    UNCHANGED <<lastSet, fresh, loaded, tampered, reset, cipher, callers,
                pool, valueSize>>

\* the constructor has ended on A with the object o, the page h and the
\* CryptoState cs
ConstructedSized(value, o, h, cs) ==
    /\ alive' = [alive EXCEPT !["A"] = TRUE]
    /\ StoreObject("A", o)
    /\ allocated' = {h}
    /\ mem' = [mem EXCEPT ![h] = o.buffer]
    /\ fakeBaseAddress' = fakeBaseAddress + valueSize + FAKE_PAD
    /\ cryptoState' = cs
    /\ written' = [written EXCEPT !["A"] = value]
    /\ ret' = [op |-> "Construct", c |-> "A", arg |-> value, exc |-> NONE,
               val |-> <<>>, freed |-> {}, acquired |-> {h}]
    /\ UNCHANGED crashed

\* SafeVar(const T& value): checked tells a build with checked iterators
ConstructSized(value, rk, rn, h, checked) ==
    /\ ~crashed /\ ~alive["A"]
    /\ ops' = ops + 1
    /\ SizedFrame
    /\ IF checked /\ valueSize > 32
       THEN /\ crashed' = TRUE
            /\ cryptoState' = [fullKey |-> Zeros(32), temp |-> <<>>,
                               copied |-> {}]
            /\ ret' = [op |-> "Construct", c |-> "A", arg |-> value,
                       exc |-> CRASH, val |-> <<>>, freed |-> {},
                       acquired |-> {}]
            /\ UNCHANGED <<alive, members, allocated, mem, fakeBaseAddress,
                           written>>
       ELSE \E cs \in {InitializeCryptoState(GenerateKeySized(valueSize, rk))} :
              \E ciphertext \in {ObfuscateSized(cs, value, GenerateNonce(rn))} :
                ConstructedSized(
                    value,
                    SetSized([NewObject EXCEPT
                                 !.key = GenerateKeySized(valueSize, rk),
                                 !.nonce = GenerateNonce(rn)],
                             ciphertext, h),
                    h, cs)

\* Serialize() on A
SerializeCall(layout) ==
    /\ ~crashed /\ alive["A"] /\ ops < MaxOps
    /\ ops' = ops + 1
    /\ \E out \in {SerializeSized(Obj("A"), layout)} :
            ret' = [op |-> "Serialize", c |-> "A", arg |-> layout,
                    exc |-> NONE, val |-> out, freed |-> {}, acquired |-> {}]
    /\ SizedFrame
    /\ UNCHANGED <<alive, members, machine, written, cryptoState>>

SizedNext ==
    \/ \E p \in 0..MaxPattern, rnd \in Draws, h \in Handles,
          checked \in BOOLEAN :
            ConstructSized(SizedValue(valueSize, p), rnd[1], rnd[2], h, checked)
    \/ \E layout \in Layouts : SerializeCall(layout)

SizedSpec == SizedInit /\ [][SizedNext]_vars

\* the payload section of what Serialize returned
Payload == SubSeq(ret.val, 13 + valueSize, 12 + 2 * valueSize)

KeyConstructionInBounds ==
    (ret.op = "Construct")
        => /\ ret.exc = NONE
           /\ cryptoState.copied \subseteq 1..32
           /\ cryptoState.fullKey =
                Bytes([i \in 1..32 |->
                    IF i <= valueSize THEN key["A"][i] ELSE 0])


(***************************************************************************)
(* Get as an observer.                                                     *)
(***************************************************************************)
\* C24.  Get is read-only: every call of Get, returning or throwing, raw or
\* not, leaves the container's ciphertext, key, nonce, real allocation
\* handle, fake token, checksum and isValid, the content of every page and
\* the state of the two allocators (the pages VirtualAlloc has committed
\* and the fake allocator's counter) as they were; and a raw Get that
\* returns, returns exactly the stored ciphertext.
GetReadOnly ==
    [][(ret'.op = "Get")
         => LET r == Get(Machine, Obj(ret'.c), ret'.arg)
            IN  /\ r.o = Obj(ret'.c)
                /\ r.m = [Machine EXCEPT !.crashed = r.m.crashed]
                /\ ret'.exc = r.exc /\ ret'.val = r.val
                /\ members' = members
                /\ allocated' = allocated /\ mem' = mem
                /\ fakeBaseAddress' = fakeBaseAddress
                /\ (ret'.arg /\ ret'.exc = NONE)
                     => ret'.val = buffer[ret'.c]]_vars

\* a raw Get has returned the stored ciphertext, which is not the value the
\* container was given, and the page still mirrors it
RawGetReturnedCiphertext ==
    /\ ret.op = "Get" /\ ret.arg = TRUE /\ ret.exc = NONE
    /\ ret.val = buffer[ret.c]
    /\ written[ret.c] # NoValue /\ ret.val # written[ret.c]
    /\ realMemory[ret.c] \in allocated
    /\ mem[realMemory[ret.c]] = buffer[ret.c]


(***************************************************************************)
(* Threads that use the containers.  The client serializes the calls on    *)
(* one container (a thread enters a call on c only when no thread is in a  *)
(* call on c); calls on different containers run concurrently.  A step is  *)
(* a stretch of a call that touches at most one thing another thread can   *)
(* touch: the pages of the process (VirtualFree, VirtualAlloc), the mutex  *)
(* or the counter of the fake allocator.                                   *)
(***************************************************************************)
\* the threads that are in a call on c
Using(c) == {t \in Threads : inCall[t].c = c}

ThreadFrame ==
    UNCHANGED <<alive, written, fresh, loaded, tampered, reset, cipher, pool,
                instantiation, request, issued, returned>>

\* the Set of thread t has left with the exception of r
SetThrown(t, c, value, r) ==
    /\ StoreMachine(r.m) /\ StoreObject(c, r.o)
    /\ ret' = [op |-> "Set", c |-> c, arg |-> value, exc |-> r.exc,
               val |-> <<>>, freed |-> r.m.freed, acquired |-> r.m.acquired]
    /\ pc' = [pc EXCEPT ![t] = "idle"]
    /\ inCall' = [inCall EXCEPT ![t] = NoCall]

\* Set(value) on c by thread t, lines 389-392: Clear, which releases the
\* page of c, GenerateKey, GenerateNonce and Obfuscate
SetClear(t, c, value, rk, rn) ==
    /\ Running /\ alive[c] /\ pc[t] = "idle" /\ Using(c) = {}
    /\ ops' = ops + 1
    /\ lastSet' = [lastSet EXCEPT ![c] = NoValue]
    /\ LET cl == Clear(Machine, Obj(c))
           keyed == [cl.o EXCEPT !.key = GenerateKey(rk),
                                 !.nonce = GenerateNonce(rn)]
       IN  IF cl.exc # NONE THEN SetThrown(t, c, value, cl)
           ELSE /\ StoreMachine(cl.m)
                /\ StoreObject(c, [keyed EXCEPT
                                     !.buffer = Obfuscate(keyed, value)])
                /\ pc' = [pc EXCEPT ![t] = "allocate"]
                /\ inCall' = [inCall EXCEPT ![t] = [c |-> c, value |-> value]]
                /\ UNCHANGED ret
    /\ ThreadFrame
    /\ UNCHANGED <<mtx, allocatedAddress>>

\* lines 393-396: VirtualAlloc returns h, a page that is not committed, or
\* NULL; the ciphertext is copied to the page and its checksum stored
SetMirror(t, h) ==
    /\ ~crashed /\ pc[t] = "allocate"
    /\ h \in (Handles \ allocated) \cup {NULL}
    /\ LET c == inCall[t].c
           st == SetAllocate(Machine, Obj(c), inCall[t].value, h)
       IN  IF st.exc # NONE
           THEN SetThrown(t, c, inCall[t].value, st)
           ELSE /\ StoreMachine([st.m EXCEPT
                                   !.fakeBaseAddress = fakeBaseAddress])
                /\ StoreObject(c, [st.o EXCEPT
                                     !.fakeMemoryAddress = fakeMemoryAddress[c],
                                     !.isValid = isValid[c]])
                /\ pc' = [pc EXCEPT ![t] = "lock"]
                /\ UNCHANGED <<ret, inCall>>
    /\ ThreadFrame
    /\ UNCHANGED <<ops, lastSet, mtx, allocatedAddress>>

\* SetLock without the wait for the mutex
SetLockUnguarded(t) ==
    /\ pc[t] = "lock"
    /\ mtx' = t
    /\ pc' = [pc EXCEPT ![t] = "load"]
    /\ ThreadFrame
    /\ UNCHANGED <<members, machine, ops, ret, lastSet, allocatedAddress,
                   inCall>>

\* line 397, AllocateFakeMemory(VALUE_SIZE), line 201: the mutex
SetLock(t) ==
    /\ pc[t] = "lock" /\ mtx = NoThread
    /\ mtx' = t
    /\ pc' = [pc EXCEPT ![t] = "load"]
    /\ ThreadFrame
    /\ UNCHANGED <<members, machine, ops, ret, lastSet, allocatedAddress,
                   inCall>>

\* line 202
SetLoad(t) ==
    /\ pc[t] = "load"
    /\ allocatedAddress' =
            [allocatedAddress EXCEPT ![t] =
                AllocateFakeMemory(Machine, VALUE_SIZE).val]
    /\ pc' = [pc EXCEPT ![t] = "add"]
    /\ ThreadFrame
    /\ UNCHANGED <<members, machine, ops, ret, lastSet, mtx, inCall>>

\* line 203
SetAdd(t) ==
    /\ pc[t] = "add"
    /\ fakeBaseAddress' =
            AllocateFakeMemory(Machine, VALUE_SIZE).m.fakeBaseAddress
    /\ pc' = [pc EXCEPT ![t] = "return"]
    /\ ThreadFrame
    /\ UNCHANGED <<members, allocated, mem, crashed, ops, ret, lastSet, mtx,
                   allocatedAddress, inCall>>

\* line 204, where the mutex is released, and lines 397-399: the token is
\* stored, isValid = true, return value
SetReturn(t) ==
    /\ pc[t] = "return"
    /\ mtx' = IF mtx = t THEN NoThread ELSE mtx
    /\ LET c == inCall[t].c
       IN  /\ StoreObject(c, [Obj(c) EXCEPT
                                !.fakeMemoryAddress = allocatedAddress[t],
                                !.isValid = TRUE])
           /\ lastSet' = [lastSet EXCEPT ![c] = inCall[t].value]
           /\ ret' = [op |-> "Set", c |-> c, arg |-> inCall[t].value,
                      exc |-> NONE, val |-> inCall[t].value,
                      freed |-> {}, acquired |-> {realMemory[c]}]
    /\ pc' = [pc EXCEPT ![t] = "idle"]
    /\ inCall' = [inCall EXCEPT ![t] = NoCall]
    /\ ThreadFrame
    /\ UNCHANGED <<machine, ops, allocatedAddress>>

\* Get() on c by thread t
ThreadGet(t, c) ==
    /\ Running /\ alive[c] /\ pc[t] = "idle" /\ Using(c) = {}
    /\ LET r == Get(Machine, Obj(c), FALSE)
       IN  /\ ret' = [op |-> "Get", c |-> c, arg |-> t, exc |-> r.exc,
                      val |-> r.val, freed |-> {}, acquired |-> {}]
           /\ crashed' = r.m.crashed
    /\ ops' = ops + 1
    /\ ThreadFrame
    /\ UNCHANGED <<members, allocated, mem, fakeBaseAddress, lastSet,
                   callers>>

ThreadNext ==
    \E t \in Threads :
        \/ \E c \in Containers, value \in Values, rnd \in Draws :
                SetClear(t, c, value, rnd[1], rnd[2])
        \/ \E h \in Handles \cup {NULL} : SetMirror(t, h)
        \/ SetLock(t)
        \/ SetLoad(t)
        \/ SetAdd(t)
        \/ SetReturn(t)
        \/ \E c \in Containers : ThreadGet(t, c)

ThreadSpec == Init /\ [][ThreadNext]_vars


\* the containers no thread is in a call on, before and after a step
Uninvolved == {d \in Containers : \A t \in Threads :
                    inCall[t].c # d /\ inCall'[t].c # d}

\* C25.  Distinct instances do not interfere: with the calls on one
\* container serialized and calls on different containers running
\* concurrently in different threads, under every interleaving a Get of a
\* container returns the value of that container's last Set (and throws
\* "Invalid memory state" when that Set was denied its page); every
\* container with a real allocation has one of its own, committed, and,
\* outside a call, equal to its ciphertext; no two containers, and no two
\* calls in flight, have received the same fake token; and a step of a call
\* changes no member and no page of a container it is not a call on.
InstancesDoNotInterfere ==
    [][/\ (ret'.op = "Get" /\ ops' = ops + 1 /\ pc' = pc)
            => IF lastSet[ret'.c] # NoValue
               THEN ret'.exc = NONE /\ ret'.val = lastSet[ret'.c]
               ELSE ret'.exc = INVALID_STATE
       /\ \A c \in Containers :
            realMemory'[c] # NULL
                => /\ realMemory'[c] \in allocated'
                   /\ \A d \in Containers \ {c} :
                            realMemory'[d] # realMemory'[c]
                   /\ (\A t \in Threads : inCall'[t].c # c)
                        => mem'[realMemory'[c]] = buffer'[c]
       /\ \A c \in Containers :
            fakeMemoryAddress'[c] # 0
                => /\ \A d \in Containers \ {c} :
                            fakeMemoryAddress'[d] # fakeMemoryAddress'[c]
                   /\ \A t \in Threads :
                            pc'[t] \in {"add", "return"}
                                => allocatedAddress'[t] # fakeMemoryAddress'[c]
       /\ \A t \in Threads, u \in Threads :
            (t # u /\ pc'[t] \in {"add", "return"}
                   /\ pc'[u] \in {"add", "return"})
                => allocatedAddress'[t] # allocatedAddress'[u]
       /\ \A d \in Uninvolved :
            /\ ObjNext(d) = Obj(d)
            /\ realMemory[d] # NULL
                => mem'[realMemory[d]] = mem[realMemory[d]]]_vars

\* a Get has returned the value a Set of a thread gave its container, while
\* another thread is inside the fake allocator in a Set on the other
\* container
GetBesideSet ==
    /\ ret.op = "Get" /\ ret.exc = NONE /\ ret.val = lastSet[ret.c]
    /\ fakeMemoryAddress[ret.c] >= FAKE_BASE + 2 * (VALUE_SIZE + FAKE_PAD)
    /\ \E u \in Threads :
            /\ pc[u] = "add" /\ inCall[u].c \notin {"", ret.c}
            /\ realMemory[inCall[u].c] # NULL

=============================================================================
